---- MODULE Spec2Model ----
(***************************************************************************)
(* Documentation image-reference analyzer, scripts/analyze-documentation.js *)
(*                                                                         *)
(* Text (document content, paths, alt text, regex literals) is a sequence  *)
(* of one-character strings, so that the two regular-expression scans, the *)
(* prefix tests, path.extname and toLowerCase are computed character by    *)
(* character as the script computes them.  Offsets (match.index,           *)
(* lastIndex) are JavaScript's 0-based offsets; position k of a TLA+       *)
(* sequence is offset k - 1.                                               *)
(***************************************************************************)
EXTENDS Naturals, Sequences, FiniteSets, TLC

NL == "\n"
DQ == "\""
SQ == "'"

UpperLetters == <<"A", "B", "C", "D", "E", "F", "G", "H", "I", "J", "K", "L", "M", "N", "O", "P", "Q", "R", "S", "T", "U", "V", "W", "X", "Y", "Z">>
LowerLetters == <<"a", "b", "c", "d", "e", "f", "g", "h", "i", "j", "k", "l", "m", "n", "o", "p", "q", "r", "s", "t", "u", "v", "w", "x", "y", "z">>

\* One character of String.prototype.toLowerCase.
LowerChar(c) ==
  IF \E i \in 1..Len(UpperLetters) : UpperLetters[i] = c
  THEN LowerLetters[CHOOSE i \in 1..Len(UpperLetters) : UpperLetters[i] = c]
  ELSE c

\* String.prototype.toLowerCase.
toLowerCase(s) == [k \in 1..Len(s) |-> LowerChar(s[k])]

\* String.prototype.startsWith.
startsWith(s, prefix) ==
  /\ Len(s) >= Len(prefix)
  /\ \A k \in 1..Len(prefix) : s[k] = prefix[k]

\* String.prototype.substring(0, end).
substring0(s, end) == SubSeq(s, 1, IF end > Len(s) THEN Len(s) ELSE end)

\* s.split(sep).length for a one-character separator: the pieces are cut at
\* every separator, so there is one more piece than separators.
RECURSIVE splitLength(_, _)
splitLength(s, sep) ==
  IF s = << >> THEN 1
  ELSE (IF Head(s) = sep THEN 1 ELSE 0) + splitLength(Tail(s), sep)

\* The literal lit stands in s at position i.
LiteralAt(s, i, lit) ==
  /\ i >= 1
  /\ i + Len(lit) - 1 <= Len(s)
  /\ \A k \in 1..Len(lit) : s[i + k - 1] = lit[k]

\* Least position >= from of a character of cs in s, 0 when there is none.
FirstIndexOf(s, from, cs) ==
  IF \E k \in from..Len(s) : s[k] \in cs
  THEN CHOOSE k \in from..Len(s) :
         /\ s[k] \in cs
         /\ \A m \in from..(k - 1) : s[m] \notin cs
  ELSE 0

SetMax(S) == CHOOSE m \in S : \A n \in S : n <= m
SetMin(S) == CHOOSE m \in S : \A n \in S : m <= n

\* RegExp.prototype.test of an unanchored literal pattern with the i flag
\* (every pattern of the script is a literal): the pattern stands somewhere
\* in s, letters compared without case.
RegexTestI(pattern, s) ==
  \E i \in 1..Len(s) :
    /\ i + Len(pattern) - 1 <= Len(s)
    /\ \A k \in 1..Len(pattern) : LowerChar(s[i + k - 1]) = LowerChar(pattern[k])

(***************************************************************************)
(* Static configuration                                                    *)
(***************************************************************************)
CAMUNDA_PATTERNS == <<
  <<"c", "a", "m", "u", "n", "d", "a">>,
  <<"c", "o", "c", "k", "p", "i", "t">>,
  <<"t", "a", "s", "k", "l", "i", "s", "t">>,
  <<"a", "d", "m", "i", "n", "-">>,
  <<"w", "e", "b", "a", "p", "p">>,
  <<"d", "a", "s", "h", "b", "o", "a", "r", "d">>,
  <<"p", "r", "o", "c", "e", "s", "s", "-", "d", "e", "f", "i", "n", "i", "t", "i", "o", "n">>,
  <<"p", "r", "o", "c", "e", "s", "s", "-", "i", "n", "s", "t", "a", "n", "c", "e">>,
  <<"d", "e", "c", "i", "s", "i", "o", "n", "-">>,
  <<"t", "a", "s", "k", "-">>,
  <<"f", "i", "l", "t", "e", "r", "-">>,
  <<"b", "a", "t", "c", "h">>,
  <<"m", "i", "g", "r", "a", "t", "i", "o", "n">>,
  <<"c", "l", "e", "a", "n", "u", "p">> >>

\* Object.entries(CATEGORIES): the categories in insertion order.
CATEGORIES == <<
  [name |-> "cockpit",
   patterns |-> << <<"c", "o", "c", "k", "p", "i", "t">>, <<"d", "a", "s", "h", "b", "o", "a", "r", "d">>, <<"p", "r", "o", "c", "e", "s", "s", "-">>, <<"d", "e", "c", "i", "s", "i", "o", "n", "-">>,
                   <<"b", "a", "t", "c", "h">>, <<"m", "i", "g", "r", "a", "t", "i", "o", "n">>, <<"h", "e", "a", "t", "m", "a", "p">> >>],
  [name |-> "tasklist",
   patterns |-> << <<"t", "a", "s", "k", "l", "i", "s", "t">>, <<"t", "a", "s", "k", "-">>, <<"f", "i", "l", "t", "e", "r">>, <<"f", "o", "r", "m">> >>],
  [name |-> "admin",
   patterns |-> << <<"a", "d", "m", "i", "n", "-">>, <<"u", "s", "e", "r">>, <<"g", "r", "o", "u", "p">>, <<"t", "e", "n", "a", "n", "t">>,
                   <<"a", "u", "t", "h", "o", "r", "i", "z", "a", "t", "i", "o", "n">>, <<"s", "y", "s", "t", "e", "m">> >>],
  [name |-> "welcome",
   patterns |-> << <<"w", "e", "l", "c", "o", "m", "e">>, <<"p", "r", "o", "f", "i", "l", "e">> >>],
  [name |-> "modeler",
   patterns |-> << <<"m", "o", "d", "e", "l", "e", "r">>, <<"d", "i", "a", "g", "r", "a", "m">>, <<"b", "p", "m", "n", "-">> >>],
  [name |-> "other",
   patterns |-> << >>] >>

CategoryNames == {CATEGORIES[c].name : c \in 1..Len(CATEGORIES)}

\* A category test that tries the first two patterns of the category only.
CategoryMatchesFirstTwo(c, pathLower) ==
  \E p \in 1..Len(CATEGORIES[c].patterns) :
    p <= 2 /\ RegexTestI(CATEGORIES[c].patterns[p], pathLower)

\* The inner loop of categorizeScreenshot: some pattern of category c matches.
CategoryMatches(c, pathLower) ==
  \E p \in 1..Len(CATEGORIES[c].patterns) :
    RegexTestI(CATEGORIES[c].patterns[p], pathLower)

\* Mutant of categorizeFrom: the last matching category wins.
categorizeFromLast(c, pathLower) ==
  LET hits == {k \in c..Len(CATEGORIES) : CategoryMatches(k, pathLower)}
  IN IF hits = {} THEN "other" ELSE CATEGORIES[SetMax(hits)].name

\* The outer loop of categorizeScreenshot from category c on.
RECURSIVE categorizeFrom(_, _)
categorizeFrom(c, pathLower) ==
  IF c > Len(CATEGORIES) THEN "other"
  ELSE IF CategoryMatches(c, pathLower) THEN CATEGORIES[c].name
  ELSE categorizeFrom(c + 1, pathLower)

categorizeScreenshot(imagePath) == categorizeFrom(1, toLowerCase(imagePath))

isCamundaSpecific(imagePath) ==
  \E p \in 1..Len(CAMUNDA_PATTERNS) :
    RegexTestI(CAMUNDA_PATTERNS[p], toLowerCase(imagePath))

(***************************************************************************)
(* path.extname (POSIX): the text from the last "." of the last path       *)
(* segment, trailing slashes dropped; empty when that segment has no ".",  *)
(* starts with its only "." or is "..".                                    *)
(***************************************************************************)
extname(p) ==
  LET nonSlash == {k \in 1..Len(p) : p[k] # "/"}
      end == IF nonSlash = {} THEN 0 ELSE SetMax(nonSlash)
      slashes == {k \in 1..end : p[k] = "/"}
      startPart == IF slashes = {} THEN 1 ELSE SetMax(slashes) + 1
      dots == {k \in startPart..end : p[k] = "."}
      startDot == IF dots = {} THEN 0 ELSE SetMax(dots)
  IN  IF end = 0 \/ startDot = 0 THEN << >>
      ELSE IF startDot = startPart THEN << >>
      ELSE IF end = startPart + 1 /\ p[startPart] = "." /\ p[end] = "." THEN << >>
      ELSE SubSeq(p, startDot, end)

IMAGE_EXTENSIONS ==
  { <<".", "p", "n", "g">>, <<".", "j", "p", "g">>, <<".", "j", "p", "e", "g">>, <<".", "g", "i", "f">>, <<".", "s", "v", "g">>, <<".", "w", "e", "b", "p">> }

(***************************************************************************)
(* The two regular expressions of extractImageReferences.  A match is a    *)
(* record: index (0-based offset of its first character), full (match[0]), *)
(* g1, g2 (the groups) and last (the lastIndex exec leaves).  NoMatch is   *)
(* exec's null.                                                            *)
(***************************************************************************)
NoMatch == [index |-> 0, full |-> << >>, g1 |-> << >>, g2 |-> << >>, last |-> 0]

\* /!\[([^\]]*)\]\(([^)]+)\)/ anchored at position i.  Both classes are
\* negated single characters, so each group runs to the first "]" (resp. ")").
MdMatchAt(s, i) ==
  IF ~ LiteralAt(s, i, <<"!", "[">>) THEN NoMatch
  ELSE LET j == FirstIndexOf(s, i + 2, {"]"})
       IN IF j = 0 \/ ~ LiteralAt(s, j + 1, <<"(">>) THEN NoMatch
          ELSE LET k == FirstIndexOf(s, j + 2, {")"})
               IN IF k = 0 \/ k = j + 2 THEN NoMatch
                  ELSE [index |-> i - 1,
                        full |-> SubSeq(s, i, k),
                        g1 |-> SubSeq(s, i + 2, j - 1),
                        g2 |-> SubSeq(s, j + 2, k - 1),
                        last |-> k]

\* /<img[^>]+src=["']([^"']+)["'][^>]*>/ anchored at position i.  [^>]+ is
\* greedy and gives back one character at a time, so of the places p where
\* the rest of the pattern matches, the rightmost is taken.
HtmlSrcPlaces(s, i) ==
  {p \in (i + 5)..Len(s) :
     /\ \A k \in (i + 4)..(p - 1) : s[k] # ">"
     /\ LiteralAt(s, p, <<"s", "r", "c", "=">>)
     /\ p + 4 <= Len(s)
     /\ s[p + 4] \in {DQ, SQ}
     /\ LET q == FirstIndexOf(s, p + 5, {DQ, SQ})
        IN /\ q > p + 5
           /\ FirstIndexOf(s, q + 1, {">"}) # 0}

HtmlMatchAt(s, i) ==
  IF ~ LiteralAt(s, i, <<"<", "i", "m", "g">>) \/ HtmlSrcPlaces(s, i) = {} THEN NoMatch
  ELSE LET p == SetMax(HtmlSrcPlaces(s, i))
           q == FirstIndexOf(s, p + 5, {DQ, SQ})
           r == FirstIndexOf(s, q + 1, {">"})
       IN [index |-> i - 1,
           full |-> SubSeq(s, i, r),
           g1 |-> SubSeq(s, p + 5, q - 1),
           g2 |-> << >>,
           last |-> r]

\* mdRegex.exec(content) with the g flag: the leftmost match at or after
\* lastIndex.
MdExec(s, lastIndex) ==
  LET starts == {i \in (lastIndex + 1)..Len(s) : MdMatchAt(s, i) # NoMatch}
  IN IF starts = {} THEN NoMatch ELSE MdMatchAt(s, SetMin(starts))

\* htmlRegex.exec(content) with the g flag.
HtmlExec(s, lastIndex) ==
  LET starts == {i \in (lastIndex + 1)..Len(s) : HtmlMatchAt(s, i) # NoMatch}
  IN IF starts = {} THEN NoMatch ELSE HtmlMatchAt(s, SetMin(starts))

(***************************************************************************)
(* Inputs: the documents on disk                                           *)
(***************************************************************************)
RECURSIVE Flatten(_)
Flatten(ss) == IF ss = << >> THEN << >> ELSE Head(ss) \o Flatten(Tail(ss))

\* ![alt](path)
MdImage(alt, p) == Flatten(<< <<"!", "[">>, alt, <<"]", "(">>, p, <<")">> >>)
\* <img src="path">
ImgTag(p) == Flatten(<< <<"<", "i", "m", "g", " ", "s", "r", "c", "=", "\"">>, p, <<"\"", ">">> >>)

AltA == <<"A">>
PathCockpit == <<"i", "m", "a", "g", "e", "s", "/", "c", "o", "c", "k", "p", "i", "t", "-", "d", "a", "s", "h", "b", "o", "a", "r", "d", ".", "p", "n", "g">>
PathExample == <<"h", "t", "t", "p", "s", ":", "/", "/", "e", "x", "a", "m", "p", "l", "e", ".", "c", "o", "m", "/", "f", "o", "o", ".", "p", "n", "g">>
PathHttp == <<"h", "t", "t", "p", ":", "/", "/", "h", "/", "t", "a", "s", "k", "-", "a", ".", "p", "n", "g">>
PathWelcome == <<"a", "s", "s", "e", "t", "s", "/", "w", "e", "l", "c", "o", "m", "e", "-", "b", "a", "n", "n", "e", "r", ".", "j", "p", "g">>
PathReport == <<"r", "e", "p", "o", "r", "t", ".", "p", "d", "f">>
PathAdmin == <<"i", "m", "a", "g", "e", "s", "/", "a", "d", "m", "i", "n", "-", "u", "s", "e", "r", "s", ".", "p", "n", "g">>
PathHttpErrors == <<"h", "t", "t", "p", "-", "e", "r", "r", "o", "r", "s", ".", "p", "n", "g">>
PathUpper == <<"T", "a", "s", "k", "l", "i", "s", "t", "/", "F", "I", "L", "T", "E", "R", ".", "P", "N", "G">>
PathDotfile == <<"i", "m", "g", "/", ".", "p", "n", "g">>
PathNoExt == <<"a", ".", "b", "/", "d", "i", "a", "g", "r", "a", "m">>
PathCleanup == <<"c", "l", "e", "a", "n", "u", "p", ".", "w", "e", "b", "p">>
PathUserForm == <<"u", "s", "e", "r", "-", "f", "o", "r", "m", ".", "j", "p", "e", "g">>
PathPlain == <<"x", ".", "g", "i", "f">>

\* The pieces the documents of the extraction runs are made of.
ExtractItems == {
  << NL >>,
  <<"x">>,
  MdImage(AltA, PathCockpit),
  MdImage(AltA, PathExample),
  MdImage(AltA, PathHttp),
  MdImage(AltA, PathReport),
  MdImage(<< >>, PathUpper),
  MdImage(AltA, PathDotfile),
  MdImage(AltA, PathNoExt),
  <<"!", "[", "A", "]", "(">>,
  Flatten(<< MdImage(AltA, PathPlain), << NL >> >>),
  ImgTag(PathWelcome),
  ImgTag(PathExample),
  ImgTag(PathHttp),
  ImgTag(PathHttpErrors),
  ImgTag(PathReport),
  <<"<", "i", "m", "g", " ", "a", "l", "t", "=", "\"", "a", ">", "b", "\"", ">">>,
  <<"<", "i", "m", "g", " ", "s", "r", "c", "=", "'", "a", ".", "g", "i", "f", "'", " ", "d", "a", "t", "a", "-", "s", "r", "c", "=", "\"", "b", ".", "g", "i", "f", "\"", " ", "/", ">">> }

\* Pieces per document in the extraction runs.
MaxItems == 2

SeqsUpTo(S, n) == UNION {[1..m -> S] : m \in 0..n}

ExtractDocs == {Flatten(d) : d \in SeqsUpTo(ExtractItems, MaxItems)}

\* The documents of the whole-run specification.
MainDocs == {
  << >>,
  Flatten(<< MdImage(AltA, PathExample), MdImage(AltA, PathReport),
             ImgTag(PathHttp) >>),
  Flatten(<< MdImage(<<"C", "o", "c", "k", "p", "i", "t", " ", "D", "a", "s", "h", "b", "o", "a", "r", "d">>, PathCockpit), << NL >>,
             ImgTag(PathAdmin) >>),
  Flatten(<< ImgTag(PathAdmin), << NL >>, MdImage(<<"T", "a", "s", "k", " ", "f", "o", "r", "m">>, PathAdmin) >>),
  Flatten(<< MdImage(AltA, PathUserForm), MdImage(AltA, PathCleanup) >>),
  Flatten(<< ImgTag(PathWelcome), << NL, NL >>, MdImage(<< >>, PathPlain) >>) }

\* The words the paths of the classification runs are made of.
ClassifyWords == {
  <<"c", "o", "c", "k", "p", "i", "t">>, <<"D", "a", "s", "h", "b", "o", "a", "r", "d">>, <<"p", "r", "o", "c", "e", "s", "s">>, <<"B", "A", "T", "C", "H">>, <<"t", "a", "s", "k", "l", "i", "s", "t">>,
  <<"t", "a", "s", "k">>, <<"f", "i", "l", "t", "e", "r">>, <<"f", "o", "r", "m">>, <<"a", "d", "m", "i", "n">>, <<"u", "s", "e", "r">>, <<"w", "e", "l", "c", "o", "m", "e">>,
  <<"m", "o", "d", "e", "l", "e", "r">>, <<"b", "p", "m", "n">>, <<"c", "a", "m", "u", "n", "d", "a">>, <<"c", "l", "e", "a", "n", "u", "p">>, <<"x">>,
  <<"m", "i", "g", "r", "a", "t", "i", "o", "n">> }

ClassifyPaths ==
  {Flatten(<< a, <<"-">>, b, <<".", "p", "n", "g">> >>) : a \in ClassifyWords, b \in ClassifyWords}

\* One path in both forms, beside occurrences that are filtered out.
ClassifyDocs ==
  {Flatten(<< MdImage(AltA, p), << NL >>, ImgTag(p), MdImage(AltA, PathExample),
              MdImage(AltA, PathReport), ImgTag(PathHttp) >>) : p \in ClassifyPaths}

\* Documents found by the walk in one run.
MaxFiles == 2

\* A file of the disk: readable with its text, or one whose read fails.
File(text) == [ok |-> TRUE, text |-> text]
Unreadable == [ok |-> FALSE, text |-> << >>]

\* The disks of the report runs: a document whose occurrences give no
\* flagged reference, then n documents with one flagged path each, all of
\* one category, then k documents referring to one flagged path of another
\* category.
MaxPlanEntries == 21
MaxLocations == 4
Letters == << "a", "b", "c", "d", "e", "f", "g", "h", "i", "j", "k", "l", "m",
              "n", "o", "p", "q", "r", "s", "t", "u", "v", "w", "x", "y", "z" >>
PlanPath(i) == << "b", "a", "t", "c", "h", "-", Letters[i], ".", "p", "n", "g" >>
PlanDisk(n, k) ==
  << File(Flatten(<< MdImage(AltA, PathExample), MdImage(AltA, PathReport),
                     ImgTag(PathHttp), ImgTag(PathWelcome) >>)) >>
  \o [i \in 1..n |-> File(MdImage(AltA, PlanPath(i)))]
  \o [j \in 1..k |-> File(ImgTag(PathAdmin))]
PlanDisks ==
  {PlanDisk(n, k) : n \in 0..MaxPlanEntries, k \in 0..MaxLocations}
  \cup {<< Unreadable >>}

VARIABLES
  disk,        \* the documents under docsPath, file -> File
  pc,          \* position in main
  mdFiles,     \* main: the list findMarkdownFiles resolved to
  fileIdx,     \* main: position of the for-of loop in mdFiles
  allImages,   \* main: allImages
  content,     \* analyzeFile: content of the file being analyzed
  lastIndex,   \* extractImageReferences: lastIndex of the regex being run
  images,      \* extractImageReferences: images
  starts,      \* history: match.index of each element of images
  report,      \* main: report
  jsonFile,    \* output/screenshot-analysis.json, as written
  mdFile,      \* output/REPLACEMENT_PLAN.md, as written
  exitCode,    \* exit status, meaningful once pc = "exited"
  stderr,      \* lines written by console.error
  args,        \* process.argv.slice(2) of the script that runs
  configData,  \* capture-screenshots: the parsed config/screenshots.json
  results,     \* capture-screenshots: results of main
  engine,      \* the engine behind the REST API: reachable or not, its data
  requests,    \* page navigations and REST requests issued, in order
  answer,      \* reset-environment: the line the user types at the prompt
  prompts,     \* reset-environment: the questions asked on the terminal
  stdout,      \* simulate-scenarios: the headings written by console.log
  script       \* process.argv[1]: the script that node runs

vars == << disk, pc, mdFiles, fileIdx, allImages, content, lastIndex, images,
           starts, report, jsonFile, mdFile, exitCode, stderr, args,
           configData, results, engine, requests, answer, prompts,
           stdout, script >>

\* The state of the other scripts, which a run of the analyzer leaves alone.
scriptVars == << args, configData, results, engine, requests, answer, prompts,
                stdout, script >>

scanVars == << content, lastIndex, images, starts >>
outVars == << report, jsonFile, mdFile, exitCode, stderr >>

NoReport == [summary |-> << >>, byCategory |-> << >>, replacementPlan |-> << >>]
NotWritten == [written |-> FALSE, data |-> << >>]

InitRun ==
  /\ pc = "start"
  /\ mdFiles = << >>
  /\ fileIdx = 1
  /\ allImages = << >>
  /\ content = << >>
  /\ lastIndex = 0
  /\ images = << >>
  /\ starts = << >>
  /\ report = NoReport
  /\ jsonFile = NotWritten
  /\ mdFile = NotWritten
  /\ exitCode = 0
  /\ stderr = << >>

NoConfig == [categories |-> {}, screenshots |-> << >>]
NoResults == [captured |-> << >>, skipped |-> << >>, failed |-> << >>]
NoEngine == [up |-> FALSE]

\* The analyzer takes no argument, no configuration and no engine.
NoScript ==
  /\ args = << >>
  /\ configData = NoConfig
  /\ results = NoResults
  /\ engine = NoEngine
  /\ requests = << >>
  /\ answer = << >>
  /\ prompts = << >>
  /\ stdout = << >>
  /\ script = "analyze-documentation"

DisksOver(docs) ==
  UNION {[1..n -> {File(d) : d \in docs} \cup {Unreadable}] : n \in 0..MaxFiles}

\* A run over up to MaxFiles documents.
Init == disk \in DisksOver(MainDocs) /\ InitRun /\ NoScript

\* A run over one document made of up to MaxItems pieces.
InitExtract ==
  /\ disk \in [{1} -> {File(d) : d \in ExtractDocs} \cup {Unreadable}]
  /\ InitRun
  /\ NoScript

\* A run over many documents with one flagged reference each.
InitMarkdown == disk \in PlanDisks /\ InitRun /\ NoScript

\* A run over one document holding one reference, over many paths.
InitClassify ==
  /\ disk \in [{1} -> {File(d) : d \in ClassifyDocs} \cup {Unreadable}]
  /\ InitRun
  /\ NoScript

(***************************************************************************)
(* extractImageReferences                                                  *)
(***************************************************************************)
\* Mutant of isExternalMd: the https prefix is forgotten.
isExternalMdHttpOnly(imagePath) == startsWith(imagePath, <<"h", "t", "t", "p", ":", "/", "/">>)

\* Line 116: the markdown form skips external URLs.
isExternalMd(imagePath) ==
  startsWith(imagePath, <<"h", "t", "t", "p", ":", "/", "/">>) \/ startsWith(imagePath, <<"h", "t", "t", "p", "s", ":", "/", "/">>)

\* Line 138: the tag form skips every path that starts with "http".
isExternalHtml(imagePath) == startsWith(imagePath, <<"h", "t", "t", "p">>)

\* Mutant of hasImageExtension: the extension is not lowercased.
hasImageExtensionCaseSensitive(imagePath) == extname(imagePath) \in IMAGE_EXTENSIONS

\* Lines 120-121.
hasImageExtension(imagePath) ==
  toLowerCase(extname(imagePath)) \in IMAGE_EXTENSIONS

\* Mutant of lineNumberAt: the count of newlines, without the first line.
lineNumberZeroBased(text, index) == splitLength(substring0(text, index), NL) - 1

\* Lines 127 and 145: content.substring(0, match.index).split('\n').length.
lineNumberAt(text, index) == splitLength(substring0(text, index), NL)

\* Lines 122-128.
MdReference(match, text, filePath) ==
  [alt |-> match.g1,
   path |-> match.g2,
   fullMatch |-> match.full,
   sourceFile |-> filePath,
   lineNumber |-> lineNumberAt(text, match.index)]

\* Lines 140-146.
HtmlReference(match, text, filePath) ==
  [alt |-> << >>,
   path |-> match.g1,
   fullMatch |-> match.full,
   sourceFile |-> filePath,
   lineNumber |-> lineNumberAt(text, match.index)]

\* Mutant of push: the element is put in front (unshift).
pushFront(list, ref) == << ref >> \o list

\* Array.prototype.push of one element.
push(list, ref) == Append(list, ref)

\* The file the for-of loop of main is at.
CurrentFile == mdFiles[fileIdx]

mainVars == << disk, mdFiles, fileIdx, allImages >>

\* Line 112, a match whose path is external: continue.
MdSkipExternal ==
  /\ pc = "md"
  /\ LET match == MdExec(content, lastIndex)
     IN /\ match # NoMatch
        /\ isExternalMd(match.g2)
        /\ lastIndex' = match.last
  /\ UNCHANGED << pc, content, images, starts, mainVars, outVars >>
  /\ UNCHANGED scriptVars

\* Line 112, a match whose extension is not an image extension: nothing pushed.
MdSkipExtension ==
  /\ pc = "md"
  /\ LET match == MdExec(content, lastIndex)
     IN /\ match # NoMatch
        /\ ~ isExternalMd(match.g2)
        /\ ~ hasImageExtension(match.g2)
        /\ lastIndex' = match.last
  /\ UNCHANGED << pc, content, images, starts, mainVars, outVars >>
  /\ UNCHANGED scriptVars

\* Lines 112-129, a match that is pushed.
MdPush ==
  /\ pc = "md"
  /\ LET match == MdExec(content, lastIndex)
     IN /\ match # NoMatch
        /\ ~ isExternalMd(match.g2)
        /\ hasImageExtension(match.g2)
        /\ images' = push(images, MdReference(match, content, CurrentFile))
        /\ starts' = push(starts, match.index)
        /\ lastIndex' = match.last
  /\ UNCHANGED << pc, content, mainVars, outVars >>
  /\ UNCHANGED scriptVars

\* Line 112, exec returns null: the loop ends and htmlRegex starts at 0.
MdDone ==
  /\ pc = "md"
  /\ MdExec(content, lastIndex) = NoMatch
  /\ lastIndex' = 0
  /\ pc' = "html"
  /\ UNCHANGED << content, images, starts, mainVars, outVars >>
  /\ UNCHANGED scriptVars

\* Lines 135-138, a match that is skipped.
HtmlSkipExternal ==
  /\ pc = "html"
  /\ LET match == HtmlExec(content, lastIndex)
     IN /\ match # NoMatch
        /\ isExternalHtml(match.g1)
        /\ lastIndex' = match.last
  /\ UNCHANGED << pc, content, images, starts, mainVars, outVars >>
  /\ UNCHANGED scriptVars

\* Lines 135-147, a match that is pushed.
HtmlPush ==
  /\ pc = "html"
  /\ LET match == HtmlExec(content, lastIndex)
     IN /\ match # NoMatch
        /\ ~ isExternalHtml(match.g1)
        /\ images' = push(images, HtmlReference(match, content, CurrentFile))
        /\ starts' = push(starts, match.index)
        /\ lastIndex' = match.last
  /\ UNCHANGED << pc, content, mainVars, outVars >>
  /\ UNCHANGED scriptVars

\* Lines 135 and 149, exec returns null: extractImageReferences returns.
HtmlDone ==
  /\ pc = "html"
  /\ HtmlExec(content, lastIndex) = NoMatch
  /\ lastIndex' = 0
  /\ pc' = "map"
  /\ UNCHANGED << content, images, starts, mainVars, outVars >>
  /\ UNCHANGED scriptVars

(***************************************************************************)
(* analyzeFile and the loop of main                                        *)
(***************************************************************************)
\* Mutant of classify: the whole match is categorized instead of the path.
classifyWholeMatch(img) ==
  [alt |-> img.alt,
   path |-> img.path,
   fullMatch |-> img.fullMatch,
   sourceFile |-> img.sourceFile,
   lineNumber |-> img.lineNumber,
   category |-> categorizeScreenshot(img.fullMatch),
   needsReplacement |-> isCamundaSpecific(img.fullMatch)]

\* Lines 159-163: one element of the map.
classify(img) ==
  [alt |-> img.alt,
   path |-> img.path,
   fullMatch |-> img.fullMatch,
   sourceFile |-> img.sourceFile,
   lineNumber |-> img.lineNumber,
   category |-> categorizeScreenshot(img.path),
   needsReplacement |-> isCamundaSpecific(img.path)]

\* Lines 325-326: the walk resolves to the documents of the disk.
FindMarkdownFiles ==
  /\ pc = "start"
  /\ mdFiles' = [f \in DOMAIN disk |-> f]
  /\ pc' = "loop"
  /\ UNCHANGED << disk, fileIdx, allImages, scanVars, outVars >>
  /\ UNCHANGED scriptVars

\* Lines 331-332 and 156: the next file is read.
ReadFile ==
  /\ pc = "loop"
  /\ fileIdx <= Len(mdFiles)
  /\ disk[CurrentFile].ok
  /\ content' = disk[CurrentFile].text
  /\ images' = << >>
  /\ starts' = << >>
  /\ lastIndex' = 0
  /\ pc' = "md"
  /\ UNCHANGED << mainVars, outVars >>
  /\ UNCHANGED scriptVars

\* A reader that logs the failed read and goes on with the next file.
ReadFileLogsAndContinues ==
  /\ pc = "loop"
  /\ fileIdx <= Len(mdFiles)
  /\ ~ disk[CurrentFile].ok
  /\ stderr' = Append(stderr, "Fatal error:")
  /\ fileIdx' = fileIdx + 1
  /\ UNCHANGED << disk, pc, mdFiles, allImages, scanVars, report, jsonFile,
                  mdFile, exitCode >>
  /\ UNCHANGED scriptVars

\* Line 156: fs.readFile rejects; nothing in main catches it.
ReadFileThrows ==
  /\ pc = "loop"
  /\ fileIdx <= Len(mdFiles)
  /\ ~ disk[CurrentFile].ok
  /\ pc' = "catch"
  /\ UNCHANGED << mainVars, scanVars, outVars >>
  /\ UNCHANGED scriptVars

\* Lines 159-163 and 333: the references are classified and collected.
AnalyzeFileDone ==
  /\ pc = "map"
  /\ allImages' = allImages \o [k \in 1..Len(images) |-> classify(images[k])]
  /\ fileIdx' = fileIdx + 1
  /\ pc' = "loop"
  /\ UNCHANGED << disk, mdFiles, scanVars, outVars >>
  /\ UNCHANGED scriptVars

(***************************************************************************)
(* generateReport.  A JavaScript object is the sequence of its entries     *)
(* [key, value] in insertion order, which is the order Object.entries      *)
(* gives.                                                                  *)
(***************************************************************************)
Flagged(i) == i.needsReplacement

\* Mutant of groupByCategory: a category's list is replaced, not extended.
RECURSIVE groupByCategoryOverwrite(_, _)
groupByCategoryOverwrite(list, k) ==
  IF k = 0 THEN << >>
  ELSE LET prev == groupByCategoryOverwrite(list, k - 1)
           image == list[k]
           at == {e \in 1..Len(prev) : prev[e].key = image.category}
       IN IF at = {}
          THEN Append(prev, [key |-> image.category, value |-> << image >>])
          ELSE [e \in 1..Len(prev) |->
                  IF e \in at
                  THEN [key |-> prev[e].key, value |-> << image >>]
                  ELSE prev[e]]

\* Lines 189-194: the entries of report.byCategory after the first k images.
RECURSIVE groupByCategory(_, _)
groupByCategory(list, k) ==
  IF k = 0 THEN << >>
  ELSE LET prev == groupByCategory(list, k - 1)
           image == list[k]
           at == {e \in 1..Len(prev) : prev[e].key = image.category}
       IN IF at = {}
          THEN Append(prev, [key |-> image.category, value |-> << image >>])
          ELSE [e \in 1..Len(prev) |->
                  IF e \in at
                  THEN [key |-> prev[e].key, value |-> Append(prev[e].value, image)]
                  ELSE prev[e]]

\* Mutant of categoryStats: the flagged count is taken over all categories.
categoryStatsAllFlagged(byCategory) ==
  [e \in 1..Len(byCategory) |->
     [key |-> byCategory[e].key,
      value |-> [total |-> Len(byCategory[e].value),
                 needsReplacement |->
                   Len(SelectSeq(Flatten([c \in 1..Len(byCategory) |->
                                            byCategory[c].value]), Flagged))]]]

\* Lines 197-202.
categoryStats(byCategory) ==
  [e \in 1..Len(byCategory) |->
     [key |-> byCategory[e].key,
      value |-> [total |-> Len(byCategory[e].value),
                 needsReplacement |-> Len(SelectSeq(byCategory[e].value, Flagged))]]]

\* Line 206: [...new Set(paths)], the distinct paths in order of first
\* occurrence, after the first k paths.
RECURSIVE uniqueOf(_, _)
uniqueOf(paths, k) ==
  IF k = 0 THEN << >>
  ELSE LET prev == uniqueOf(paths, k - 1)
       IN IF \E e \in 1..Len(prev) : prev[e] = paths[k]
          THEN prev
          ELSE Append(prev, paths[k])

\* Lines 209-217: the plan entry of one path.
planEntry(toReplace, imagePath) ==
  LET SamePath(i) == i.path = imagePath
      references == SelectSeq(toReplace, SamePath)
  IN [imagePath |-> imagePath,
      category |-> references[1].category,
      referencedIn |-> [r \in 1..Len(references) |->
                          [file |-> references[r].sourceFile,
                           line |-> references[r].lineNumber]]]

\* Mutant of replacementPlanOf: one entry per flagged reference, no Set.
replacementPlanNoDedupe(list) ==
  LET toReplace == SelectSeq(list, Flagged)
  IN [u \in 1..Len(toReplace) |-> planEntry(toReplace, toReplace[u].path)]

\* Lines 205-218.
replacementPlanOf(list) ==
  LET toReplace == SelectSeq(list, Flagged)
      uniquePaths == uniqueOf([k \in 1..Len(toReplace) |-> toReplace[k].path],
                              Len(toReplace))
  IN [u \in 1..Len(uniquePaths) |-> planEntry(toReplace, uniquePaths[u])]

generateReport(list) ==
  LET byCategory == groupByCategory(list, Len(list))
  IN [summary |-> [total |-> Len(list),
                   needsReplacement |-> Len(SelectSeq(list, Flagged)),
                   byCategory |-> categoryStats(byCategory)],
      byCategory |-> byCategory,
      replacementPlan |-> replacementPlanOf(list)]

(***************************************************************************)
(* generateMarkdownReport: the sections of the replacement plan.           *)
(***************************************************************************)
\* Line 262: items.slice(0, 20).
ITEM_CAP == 20
\* Line 266: referencedIn.slice(0, 3).
REF_CAP == 3

\* A slice that takes the element at index n as well.
sliceInclusive(s, n) == SubSeq(s, 1, IF Len(s) < n + 1 THEN Len(s) ELSE n + 1)

\* Array.prototype.slice(0, n).
slice0(s, n) == SubSeq(s, 1, IF Len(s) < n THEN Len(s) ELSE n)

\* Lines 263-272: one listed entry.
markdownItem(item) ==
  [path |-> item.imagePath,
   files |-> Len(item.referencedIn),
   shown |-> slice0(item.referencedIn, REF_CAP),
   more |-> IF Len(item.referencedIn) > REF_CAP
            THEN Len(item.referencedIn) - REF_CAP ELSE 0]

\* Lines 257-277: the section of category c; no section when it has no items.
markdownSection(r, c) ==
  LET InCategory(i) == i.category = CATEGORIES[c].name
      items == SelectSeq(r.replacementPlan, InCategory)
      listed == slice0(items, ITEM_CAP)
  IN IF items = << >> THEN << >>
     ELSE << [category |-> CATEGORIES[c].name,
              count |-> Len(items),
              listed |-> [k \in 1..Len(listed) |-> markdownItem(listed[k])],
              more |-> IF Len(items) > ITEM_CAP THEN Len(items) - ITEM_CAP ELSE 0] >>

\* Lines 226-309: the summary counts, the category table and the sections.
generateMarkdownReport(r) ==
  [total |-> r.summary.total,
   needsReplacement |-> r.summary.needsReplacement,
   table |-> r.summary.byCategory,
   sections |-> Flatten([c \in 1..Len(CATEGORIES) |-> markdownSection(r, c)])]

(***************************************************************************)
(* The rest of main                                                        *)
(***************************************************************************)
\* A report stage that rejects a run without references.
GenerateReportRejectsEmpty ==
  /\ pc = "loop"
  /\ fileIdx > Len(mdFiles)
  /\ IF allImages = << >>
     THEN pc' = "catch" /\ report' = report
     ELSE pc' = "mkdir" /\ report' = generateReport(allImages)
  /\ UNCHANGED << mainVars, scanVars, jsonFile, mdFile, exitCode, stderr >>
  /\ UNCHANGED scriptVars

\* Lines 331 and 339: the loop is over, the report is generated.
GenerateReport ==
  /\ pc = "loop"
  /\ fileIdx > Len(mdFiles)
  /\ report' = generateReport(allImages)
  /\ pc' = "mkdir"
  /\ UNCHANGED << mainVars, scanVars, jsonFile, mdFile, exitCode, stderr >>
  /\ UNCHANGED scriptVars

\* Line 353.
Mkdir ==
  /\ pc = "mkdir"
  /\ pc' = "writeJson"
  /\ UNCHANGED << mainVars, scanVars, outVars >>
  /\ UNCHANGED scriptVars

\* Line 358.
WriteJson ==
  /\ pc = "writeJson"
  /\ jsonFile' = [written |-> TRUE, data |-> report]
  /\ pc' = "writeMarkdown"
  /\ UNCHANGED << mainVars, scanVars, report, mdFile, exitCode, stderr >>
  /\ UNCHANGED scriptVars

\* Line 359.
WriteMarkdown ==
  /\ pc = "writeMarkdown"
  /\ mdFile' = [written |-> TRUE, data |-> generateMarkdownReport(report)]
  /\ pc' = "return"
  /\ UNCHANGED << mainVars, scanVars, report, jsonFile, exitCode, stderr >>
  /\ UNCHANGED scriptVars

\* Lines 353, 358, 359: the file system rejects the call.
OutputThrows ==
  /\ pc \in {"mkdir", "writeJson", "writeMarkdown"}
  /\ pc' = "catch"
  /\ UNCHANGED << mainVars, scanVars, outVars >>
  /\ UNCHANGED scriptVars

\* Line 365: main resolves and the process ends with status 0.
MainReturns ==
  /\ pc = "return"
  /\ exitCode' = 0
  /\ pc' = "exited"
  /\ UNCHANGED << mainVars, scanVars, report, jsonFile, mdFile, stderr >>
  /\ UNCHANGED scriptVars

\* Lines 367-370.
Catch ==
  /\ pc = "catch"
  /\ stderr' = Append(stderr, "Fatal error:")
  /\ exitCode' = 1
  /\ pc' = "exited"
  /\ UNCHANGED << mainVars, scanVars, report, jsonFile, mdFile >>
  /\ UNCHANGED scriptVars

Next ==
  \/ FindMarkdownFiles
  \/ ReadFile
  \/ ReadFileThrows
  \/ MdSkipExternal
  \/ MdSkipExtension
  \/ MdPush
  \/ MdDone
  \/ HtmlSkipExternal
  \/ HtmlPush
  \/ HtmlDone
  \/ AnalyzeFileDone
  \/ GenerateReport
  \/ Mkdir
  \/ WriteJson
  \/ WriteMarkdown
  \/ OutputThrows
  \/ MainReturns
  \/ Catch

Spec == Init /\ [][Next]_vars
SpecExtract == InitExtract /\ [][Next]_vars
SpecClassify == InitClassify /\ [][Next]_vars
SpecMarkdown == InitMarkdown /\ [][Next]_vars

(***************************************************************************)
(* Properties                                                              *)
(***************************************************************************)
\* A path with a network scheme.
HasNetworkScheme(p) == startsWith(p, <<"h", "t", "t", "p", ":", "/", "/">>) \/ startsWith(p, <<"h", "t", "t", "p", "s", ":", "/", "/">>)

\* The form a reference was found in, read off its first character.
IsInlineRef(ref) == ref.fullMatch[1] = "!"
IsTagRef(ref) == ref.fullMatch[1] = "<"

\* extractImageReferences has returned.
Returned == pc = "map"

\* The newline characters before offset index of text.
NewlinesBefore(text, index) == Cardinality({k \in 1..index : text[k] = NL})

\* C1 as stated: the returned references are in document order, each one
\* starting at an offset, and on a line, not before the one listed before it.
C1_DocumentOrder ==
  Returned =>
    \A i, j \in 1..Len(images) :
      i < j => /\ starts[i] <= starts[j]
               /\ images[i].lineNumber <= images[j].lineNumber

\* C1 amended: the returned list holds the inline-image references in
\* document order followed by the tag references in document order.
C1_OrderWithinForm ==
  Returned =>
    \A i, j \in 1..Len(images) :
      i < j =>
        /\ ~ (IsTagRef(images[i]) /\ IsInlineRef(images[j]))
        /\ (IsInlineRef(images[i]) <=> IsInlineRef(images[j])) =>
             /\ starts[i] < starts[j]
             /\ images[i].lineNumber <= images[j].lineNumber

\* A tag precedes an inline image in the text and follows it in the list.
C1_Witness ==
  /\ Returned
  /\ \E i, j \in 1..Len(images) :
       /\ i < j
       /\ IsInlineRef(images[i])
       /\ IsTagRef(images[j])
       /\ starts[j] < starts[i]

\* The positions of the flagged references with path p in the scan.
FlaggedAt(p) ==
  {k \in 1..Len(allImages) : allImages[k].needsReplacement /\ allImages[k].path = p}

\* The r-th position of S in ascending order.
NthOf(S, r) == CHOOSE k \in S : Cardinality({m \in S : m < k}) = r - 1

\* C2: the replacement plan has exactly one entry per distinct flagged path
\* and none for another path, and an entry lists the locations of all the
\* flagged references with its path in the order of the scan.
C2_PlanPerDistinctPath ==
  report # NoReport =>
    LET plan == report.replacementPlan
    IN /\ {plan[e].imagePath : e \in 1..Len(plan)}
            = {allImages[k].path : k \in {n \in 1..Len(allImages) :
                                              allImages[n].needsReplacement}}
       /\ \A e, f \in 1..Len(plan) : plan[e].imagePath = plan[f].imagePath => e = f
       /\ \A e \in 1..Len(plan) :
            LET at == FlaggedAt(plan[e].imagePath)
                locs == plan[e].referencedIn
            IN /\ Len(locs) = Cardinality(at)
               /\ \A r \in 1..Len(locs) :
                    /\ locs[r].file = allImages[NthOf(at, r)].sourceFile
                    /\ locs[r].line = allImages[NthOf(at, r)].lineNumber

\* Two documents reference one flagged path: one entry with two locations.
C2_Witness ==
  /\ report # NoReport
  /\ \E e \in 1..Len(report.replacementPlan) :
       LET locs == report.replacementPlan[e].referencedIn
       IN /\ Len(locs) >= 2
          /\ locs[1].file # locs[2].file
  /\ \E k \in 1..Len(allImages) : ~ allImages[k].needsReplacement

RECURSIVE SumTotals(_)
SumTotals(stats) ==
  IF stats = << >> THEN 0 ELSE Head(stats).value.total + SumTotals(Tail(stats))

RECURSIVE SumFlagged(_)
SumFlagged(stats) ==
  IF stats = << >> THEN 0
  ELSE Head(stats).value.needsReplacement + SumFlagged(Tail(stats))

\* C3: the per-category totals sum to the total and the per-category flagged
\* counts sum to the flagged count of the report.
C3_CategoriesPartition ==
  report # NoReport =>
    /\ report.summary.total = Len(allImages)
    /\ SumTotals(report.summary.byCategory) = report.summary.total
    /\ SumFlagged(report.summary.byCategory) = report.summary.needsReplacement

\* Several categories, one of them with several references, some flagged.
C3_Witness ==
  /\ report # NoReport
  /\ Len(report.summary.byCategory) >= 2
  /\ \E e \in 1..Len(report.summary.byCategory) :
       report.summary.byCategory[e].value.total >= 2
  /\ report.summary.needsReplacement >= 1
  /\ report.summary.needsReplacement < report.summary.total

\* C4: in every category listed the flagged count is at most the total, and
\* the total is at least 1.
C4_FlaggedAtMostTotal ==
  report # NoReport =>
    \A e \in 1..Len(report.summary.byCategory) :
      LET stats == report.summary.byCategory[e].value
      IN stats.needsReplacement <= stats.total /\ stats.total >= 1

\* A category with fewer flagged references than references beside a
\* category whose references are all flagged.
C4_Witness ==
  /\ report # NoReport
  /\ \E e, f \in 1..Len(report.summary.byCategory) :
       LET s == report.summary.byCategory[e].value
           t == report.summary.byCategory[f].value
       IN s.needsReplacement < s.total /\ t.needsReplacement = t.total

\* The categories that have patterns, in their fixed order.
FixedOrder == << "cockpit", "tasklist", "admin", "welcome", "modeler" >>

PatternsOf(name) ==
  CATEGORIES[CHOOSE c \in 1..Len(CATEGORIES) : CATEGORIES[c].name = name].patterns

\* Some pattern of the named category matches the lowercased path.
MatchesCategory(name, p) ==
  \E k \in 1..Len(PatternsOf(name)) : RegexTestI(PatternsOf(name)[k], toLowerCase(p))

\* The categories of FixedOrder that match p, as positions.
Hits(p) == {c \in 1..Len(FixedOrder) : MatchesCategory(FixedOrder[c], p)}

\* C5: every classified reference has one of the six categories: the first
\* of the fixed order that has a matching pattern, and "other" exactly when
\* no category matches.
C5_FirstMatchWins ==
  \A k \in 1..Len(allImages) :
    LET ref == allImages[k]
    IN /\ ref.category \in {FixedOrder[c] : c \in 1..Len(FixedOrder)} \cup {"other"}
       /\ IF Hits(ref.path) = {} THEN ref.category = "other"
          ELSE ref.category = FixedOrder[SetMin(Hits(ref.path))]

\* A path that matches patterns of two categories got the earlier one.
C5_Witness ==
  \E k \in 1..Len(allImages) :
    /\ Cardinality(Hits(allImages[k].path)) >= 2
    /\ 1 \notin Hits(allImages[k].path)
    /\ allImages[k].category = FixedOrder[SetMin(Hits(allImages[k].path))]

\* C6: two references with the same path have the same category and the
\* same flag, whatever their document, line, alt text, form and position.
C6_PathDeterminesClass ==
  \A i, j \in 1..Len(allImages) :
    allImages[i].path = allImages[j].path =>
      /\ allImages[i].category = allImages[j].category
      /\ allImages[i].needsReplacement = allImages[j].needsReplacement

\* One path referenced from two documents, in both forms, with different
\* alt text and on different lines.
C6_Witness ==
  \E i, j \in 1..Len(allImages) :
    /\ allImages[i].path = allImages[j].path
    /\ allImages[i].sourceFile # allImages[j].sourceFile
    /\ allImages[i].lineNumber # allImages[j].lineNumber
    /\ allImages[i].alt # allImages[j].alt
    /\ IsInlineRef(allImages[i])
    /\ IsTagRef(allImages[j])

\* The match the scan is at: exec of the regex of the running loop.
MdCurrent == MdExec(content, lastIndex)
HtmlCurrent == HtmlExec(content, lastIndex)

\* C7: no reference extracted, collected, or listed in the replacement plan
\* has a path that begins with http:// or https://.
C7_NoExternalReference ==
  /\ \A k \in 1..Len(images) : ~ HasNetworkScheme(images[k].path)
  /\ \A k \in 1..Len(allImages) : ~ HasNetworkScheme(allImages[k].path)
  /\ \A e \in 1..Len(report.replacementPlan) :
       ~ HasNetworkScheme(report.replacementPlan[e].imagePath)

\* A document with an external inline image and an external tag was
\* scanned and gave no reference.
C7_Witness ==
  /\ Returned
  /\ images = << >>
  /\ \E i \in 1..Len(content) :
       MdMatchAt(content, i) # NoMatch /\ HasNetworkScheme(MdMatchAt(content, i).g2)
  /\ \E i \in 1..Len(content) :
       HtmlMatchAt(content, i) # NoMatch /\ HasNetworkScheme(HtmlMatchAt(content, i).g1)

\* C8 as stated: a tag occurrence whose path has no network scheme adds
\* exactly one reference, with empty alt text and that path.
C8_TagFilterIsSchemeOnly ==
  [][(pc = "html" /\ HtmlCurrent # NoMatch /\ ~ HasNetworkScheme(HtmlCurrent.g1))
       => /\ Len(images') = Len(images) + 1
          /\ images'[Len(images')].alt = << >>
          /\ images'[Len(images')].path = HtmlCurrent.g1]_vars

\* The extensions of the inline form.
RecognizedExtensions ==
  { <<".", "p", "n", "g">>, <<".", "j", "p", "g">>, <<".", "j", "p", "e", "g">>, <<".", "g", "i", "f">>, <<".", "s", "v", "g">>, <<".", "w", "e", "b", "p">> }

\* C9: an inline occurrence with a non-external path adds exactly one
\* reference when its extension, lowercased, is recognized, and none otherwise.
C9_InlineExtensionFilter ==
  [][(pc = "md" /\ MdCurrent # NoMatch /\ ~ HasNetworkScheme(MdCurrent.g2))
       => IF toLowerCase(extname(MdCurrent.g2)) \in RecognizedExtensions
          THEN /\ Len(images') = Len(images) + 1
               /\ SubSeq(images', 1, Len(images)) = images
               /\ images'[Len(images')].path = MdCurrent.g2
               /\ images'[Len(images')].alt = MdCurrent.g1
          ELSE images' = images]_vars

\* A document with an inline .pdf occurrence, which gave nothing, and an
\* inline .PNG occurrence, which gave the one reference.
C9_Witness ==
  /\ Returned
  /\ Len(images) = 1
  /\ images[1].path = PathUpper
  /\ \E i \in 1..Len(content) :
       MdMatchAt(content, i) # NoMatch /\ MdMatchAt(content, i).g2 = PathReport

\* C10: the line number of a reference is 1 plus the number of newline
\* characters before the first character of its match, and at least 1.
C10_LineNumber ==
  \A k \in 1..Len(images) :
    /\ images[k].lineNumber = 1 + NewlinesBefore(content, starts[k])
    /\ images[k].lineNumber >= 1

\* An inline reference on the first line and a tag reference on the second.
C10_Witness ==
  \E i, j \in 1..Len(images) :
    /\ IsInlineRef(images[i]) /\ images[i].lineNumber = 1
    /\ IsTagRef(images[j]) /\ images[j].lineNumber = 2

(***************************************************************************)
(* Claims about the end of the run.                                        *)
(***************************************************************************)
AllFilesScanned == pc \notin {"start"} /\ fileIdx > Len(mdFiles)
SomeReadFails == \E f \in DOMAIN disk : ~ disk[f].ok
Exited == pc = "exited"

\* C11: an output file is written only after every document found has been
\* read and scanned; if reading a document fails, the run writes neither
\* output file, logs the error and exits with a non-zero status; the run
\* exits with status zero only after both files have been written.
C11_NothingFlushedIncrementally ==
  /\ (jsonFile.written \/ mdFile.written) => AllFilesScanned
  /\ (jsonFile.written \/ mdFile.written) => ~ SomeReadFails
  /\ (Exited /\ SomeReadFails)
       => /\ ~ jsonFile.written
          /\ ~ mdFile.written
          /\ stderr # << >>
          /\ exitCode # 0
  /\ (Exited /\ exitCode = 0) => (jsonFile.written /\ mdFile.written)

\* The first document was scanned and gave references, the read of the
\* second one failed, and the run ended with status 1 and no output file.
C11_Witness ==
  /\ Exited
  /\ exitCode = 1
  /\ Len(mdFiles) = 2
  /\ disk[1].ok
  /\ ~ disk[2].ok
  /\ Len(allImages) >= 1
  /\ ~ jsonFile.written
  /\ ~ mdFile.written
  /\ stderr # << >>

\* The walk is over and gave no reference: no document, or only documents
\* without a reference that passes the filters.
EmptyWalk == AllFilesScanned /\ allImages = << >>
EmptyReport ==
  [summary |-> [total |-> 0, needsReplacement |-> 0, byCategory |-> << >>],
   byCategory |-> << >>,
   replacementPlan |-> << >>]

\* C12: a run whose walk gives no reference is not an error: the report has
\* total 0, needsReplacement 0, no per-category entry and an empty
\* replacement plan; the run reaches the output stage, where both files are
\* written with that report, and exits with status zero.  Only a rejected
\* mkdir or writeFile can end such a run otherwise.
C12_EmptyRunIsNotAnError ==
  EmptyWalk =>
    /\ pc \in {"catch", "mkdir", "writeJson", "writeMarkdown", "return", "exited"}
         => report = EmptyReport
    /\ jsonFile.written => jsonFile.data = EmptyReport
    /\ mdFile.written
         => /\ mdFile.data.total = 0
            /\ mdFile.data.needsReplacement = 0
            /\ mdFile.data.table = << >>
            /\ mdFile.data.sections = << >>
    /\ pc = "return" => (jsonFile.written /\ mdFile.written /\ stderr = << >>)
    /\ (Exited /\ stderr = << >>)
         => (exitCode = 0 /\ jsonFile.written /\ mdFile.written)

\* A run that found no document and one that found a document without
\* references, both ended with status 0 and the two files written.
C12_Witness ==
  /\ Exited
  /\ exitCode = 0
  /\ EmptyWalk
  /\ Len(mdFiles) = 2
  /\ disk[1].text = << >>
  /\ disk[2].text # << >>
  /\ jsonFile.written
  /\ mdFile.written
  /\ report.summary.total = 0

\* The replacement-plan entries of a category, in plan order.
PlanOf(name) ==
  LET InCategory(i) == i.category = name
  IN SelectSeq(report.replacementPlan, InCategory)
SectionsOf(name) ==
  LET InCategory(sec) == sec.category = name
  IN SelectSeq(mdFile.data.sections, InCategory)
Min(a, b) == IF a < b THEN a ELSE b

\* C13: in the written human-readable report a category with n > 0 plan
\* entries has one section listing exactly min(n, 20) of them, with a
\* trailer if and only if n > 20, for n - 20 entries; a listed entry with k
\* locations shows exactly min(k, 3) of them, with a trailer if and only if
\* k > 3, for k - 3 locations; a category without plan entries has no
\* section.  (A trailer count of 0 stands for no trailer.)
C13_DisplayCaps ==
  mdFile.written =>
    \A name \in CategoryNames :
      LET items == PlanOf(name)
          n == Len(items)
          secs == SectionsOf(name)
      IN IF n = 0 THEN secs = << >>
         ELSE /\ Len(secs) = 1
              /\ Len(secs[1].listed) = Min(n, 20)
              /\ (secs[1].more > 0) <=> (n > 20)
              /\ (n > 20) => secs[1].more = n - 20
              /\ \A e \in 1..Len(secs[1].listed) :
                   LET k == Len(items[e].referencedIn)
                       entry == secs[1].listed[e]
                   IN /\ entry.path = items[e].imagePath
                      /\ Len(entry.shown) = Min(k, 3)
                      /\ entry.shown = SubSeq(items[e].referencedIn, 1, Min(k, 3))
                      /\ (entry.more > 0) <=> (k > 3)
                      /\ (k > 3) => entry.more = k - 3

\* A written report with a section of 21 entries, 20 of them listed and a
\* trailer for 1, and an entry with 4 locations, 3 of them shown and a
\* trailer for 1; four categories have no section.
C13_Witness ==
  /\ mdFile.written
  /\ Len(mdFile.data.sections) = 2
  /\ \E a, b \in 1..Len(mdFile.data.sections) :
       /\ mdFile.data.sections[a].count = 21
       /\ Len(mdFile.data.sections[a].listed) = 20
       /\ mdFile.data.sections[a].more = 1
       /\ mdFile.data.sections[b].count = 1
       /\ mdFile.data.sections[b].listed[1].files = 4
       /\ Len(mdFile.data.sections[b].listed[1].shown) = 3
       /\ mdFile.data.sections[b].listed[1].more = 1

\* The term stands somewhere in the path, letters compared without case.
ContainsTerm(p, term) ==
  \E i \in 1..Len(p) : LiteralAt(toLowerCase(p), i, term)
TermBatch == << "b", "a", "t", "c", "h" >>
TermMigration == << "m", "i", "g", "r", "a", "t", "i", "o", "n" >>
TermCleanup == << "c", "l", "e", "a", "n", "u", "p" >>
TermDashboard == << "d", "a", "s", "h", "b", "o", "a", "r", "d" >>
\* No pattern of the categories after cockpit matches the path.
NoOtherCategory(p) == Hits(p) \subseteq {1}

\* C14 as stated: a path that contains 'batch', 'migration' or 'cleanup' and
\* matches no other category pattern is classified cockpit, as a path that
\* contains 'dashboard' is.
C14_SameCategoryAsDashboard ==
  \A k \in 1..Len(allImages) :
    LET ref == allImages[k]
    IN /\ ContainsTerm(ref.path, TermDashboard) => ref.category = "cockpit"
       /\ ( /\ \/ ContainsTerm(ref.path, TermBatch)
               \/ ContainsTerm(ref.path, TermMigration)
               \/ ContainsTerm(ref.path, TermCleanup)
            /\ NoOtherCategory(ref.path) )
            => ref.category = "cockpit"

\* C14 amended: 'batch' and 'migration' are patterns of the cockpit
\* category, as 'dashboard' is, so a path that contains one of them is
\* classified cockpit; 'cleanup' is a pattern of the flag only and of no
\* category, so a path that contains 'cleanup' and matches no category
\* pattern is classified other, and flagged.
C14_CleanupHasNoCategory ==
  \A k \in 1..Len(allImages) :
    LET ref == allImages[k]
    IN /\ ( \/ ContainsTerm(ref.path, TermDashboard)
            \/ ContainsTerm(ref.path, TermBatch)
            \/ ContainsTerm(ref.path, TermMigration) )
            => ref.category = "cockpit"
       /\ ( \/ ContainsTerm(ref.path, TermBatch)
            \/ ContainsTerm(ref.path, TermMigration)
            \/ ContainsTerm(ref.path, TermCleanup) )
            => ref.needsReplacement
       /\ (ContainsTerm(ref.path, TermCleanup) /\ Hits(ref.path) = {})
            => ref.category = "other"

\* A 'migration' path classified cockpit beside a 'cleanup' path that
\* matches no category pattern and is classified other and flagged.
C14_Witness ==
  \E k \in 1..Len(allImages) :
    /\ ContainsTerm(allImages[k].path, TermCleanup)
    /\ ContainsTerm(allImages[k].path, TermMigration) = FALSE
    /\ Hits(allImages[k].path) = {}
    /\ allImages[k].category = "other"
    /\ allImages[k].needsReplacement

(***************************************************************************)
(* capture-screenshots.js.  The script never reads process.argv.  A page   *)
(* navigation is a request [method |-> "GOTO", resource, id]: the app for  *)
(* a login (id 0), the category and the definition for a screenshot.       *)
(***************************************************************************)
MaxScreenshots == 3

\* The categories of config/screenshots.json, each with the base URL of its
\* app, and a category name the file does not define.
CaptureCategories == {"cockpit", "tasklist", "admin", "welcome"}
UnknownCategory == "unknown"

\* One definition of configData.screenshots: its category, and whether
\* resolvePath leaves a '{' in its path.
ScreenshotDefs ==
  [category : CaptureCategories \cup {UnknownCategory}, unresolved : BOOLEAN]

ConfigDatas ==
  {[categories |-> CaptureCategories, screenshots |-> ss] :
     ss \in SeqsUpTo(ScreenshotDefs, MaxScreenshots)}

\* The arguments the Makefile targets capture, capture-cockpit,
\* capture-tasklist and capture-admin pass.
CategoryFlag ==
  [cockpit |-> "--category=cockpit",
   tasklist |-> "--category=tasklist",
   admin |-> "--category=admin"]
CaptureArgs == {<< >>} \cup {<< CategoryFlag[c] >> : c \in DOMAIN CategoryFlag}

\* The analyzer's own state, for a run of another script.
NoAnalyzer == disk = << >> /\ InitRun

InitCapture ==
  /\ NoAnalyzer
  /\ script = "capture-screenshots"
  /\ args \in CaptureArgs
  /\ configData \in ConfigDatas
  /\ results = NoResults
  /\ engine = NoEngine
  /\ requests = << >>
  /\ answer = << >>
  /\ prompts = << >>
  /\ stdout = << >>

\* What a step of another script leaves alone: the state of the analyzer and
\* the script that runs.
analyzerVars == << disk, mdFiles, fileIdx, allImages, scanVars, report,
                   jsonFile, mdFile, script >>

Goto(resource, id) == [method |-> "GOTO", resource |-> resource, id |-> id]

\* Lines 334-343: the login that switches to the app of the category.
AppSwitch(category) ==
  IF category \in {"tasklist", "admin", "welcome"}
  THEN << Goto(category, 0) >> ELSE << >>

\* The position of the for-of loop of line 330: every iteration pushes one
\* id to results.captured or to results.failed.
CaptureIdx == Len(results.captured) + Len(results.failed) + 1
CurrentScreenshot == configData.screenshots[CaptureIdx]

\* Lines 284-321: the configuration is read, the browser is launched.
CaptureStart ==
  /\ pc = "start"
  /\ pc' = "login"
  /\ UNCHANGED << analyzerVars, exitCode, stderr, scriptVars >>

\* Lines 293, 304: fs.readFile, JSON.parse or puppeteer.launch throws.
CaptureStartThrows ==
  /\ pc = "start"
  /\ pc' = "fatal"
  /\ UNCHANGED << analyzerVars, exitCode, stderr, scriptVars >>

\* Lines 325-327.
CaptureLogin ==
  /\ pc = "login"
  /\ requests' = Append(requests, Goto("cockpit", 0))
  /\ pc' = "each"
  /\ UNCHANGED << analyzerVars, exitCode, stderr, args, configData, results,
                  engine, answer, prompts, stdout >>

\* Lines 84 and 353-357: page.goto of a login rejects, inside the try.
CaptureLoginThrows ==
  /\ pc = "login"
  /\ requests' = Append(requests, Goto("cockpit", 0))
  /\ stderr' = Append(stderr, "Fatal error:")
  /\ pc' = "finally"
  /\ UNCHANGED << analyzerVars, exitCode, args, configData, results, engine,
                  answer, prompts, stdout >>

\* Lines 332-335: category is undefined and category.baseUrl throws.
CaptureUnknownCategory ==
  /\ pc = "each"
  /\ CaptureIdx <= Len(configData.screenshots)
  /\ CurrentScreenshot.category \notin configData.categories
  /\ stderr' = Append(stderr, "Fatal error:")
  /\ pc' = "finally"
  /\ UNCHANGED << analyzerVars, exitCode, scriptVars >>

\* Lines 334-343, 248-255, 350: the path keeps a '{'; nothing is navigated.
CaptureSkipUnresolved ==
  /\ pc = "each"
  /\ CaptureIdx <= Len(configData.screenshots)
  /\ CurrentScreenshot.category \in configData.categories
  /\ CurrentScreenshot.unresolved
  /\ requests' = requests \o AppSwitch(CurrentScreenshot.category)
  /\ results' = [results EXCEPT !.failed = Append(@, CaptureIdx)]
  /\ UNCHANGED << analyzerVars, pc, exitCode, stderr, args, configData,
                  engine, answer, prompts, stdout >>

\* Lines 334-348, 259-274: the page is navigated to and captured.
CaptureScreenshot ==
  /\ pc = "each"
  /\ CaptureIdx <= Len(configData.screenshots)
  /\ CurrentScreenshot.category \in configData.categories
  /\ ~ CurrentScreenshot.unresolved
  /\ requests' = requests \o AppSwitch(CurrentScreenshot.category)
                   \o << Goto(CurrentScreenshot.category, CaptureIdx) >>
  /\ results' = [results EXCEPT !.captured = Append(@, CaptureIdx)]
  /\ UNCHANGED << analyzerVars, pc, exitCode, stderr, args, configData,
                  engine, answer, prompts, stdout >>

\* Lines 275-278, 350: navigateTo, executeActions or takeScreenshot throws.
CaptureScreenshotFails ==
  /\ pc = "each"
  /\ CaptureIdx <= Len(configData.screenshots)
  /\ CurrentScreenshot.category \in configData.categories
  /\ ~ CurrentScreenshot.unresolved
  /\ requests' = requests \o AppSwitch(CurrentScreenshot.category)
                   \o << Goto(CurrentScreenshot.category, CaptureIdx) >>
  /\ results' = [results EXCEPT !.failed = Append(@, CaptureIdx)]
  /\ UNCHANGED << analyzerVars, pc, exitCode, stderr, args, configData,
                  engine, answer, prompts, stdout >>

\* Line 330: the loop is over.
CaptureLoopDone ==
  /\ pc = "each"
  /\ CaptureIdx > Len(configData.screenshots)
  /\ pc' = "finally"
  /\ UNCHANGED << analyzerVars, exitCode, stderr, scriptVars >>

\* Lines 358-382: the browser is closed, the summary printed, main resolves.
CaptureFinish ==
  /\ pc = "finally"
  /\ exitCode' = 0
  /\ pc' = "exited"
  /\ UNCHANGED << analyzerVars, stderr, scriptVars >>

\* Lines 385-388.
CaptureFatal ==
  /\ pc = "fatal"
  /\ stderr' = Append(stderr, "Fatal error:")
  /\ exitCode' = 1
  /\ pc' = "exited"
  /\ UNCHANGED << analyzerVars, scriptVars >>

NextCapture ==
  \/ CaptureStart
  \/ CaptureStartThrows
  \/ CaptureLogin
  \/ CaptureLoginThrows
  \/ CaptureUnknownCategory
  \/ CaptureSkipUnresolved
  \/ CaptureScreenshot
  \/ CaptureScreenshotFails
  \/ CaptureLoopDone
  \/ CaptureFinish
  \/ CaptureFatal

SpecCapture == InitCapture /\ [][NextCapture]_vars

\* C15 as stated: a run with --category=cockpit (tasklist, admin) navigates
\* to and captures only the definitions of that category.
C15_OnlySelectedCategory ==
  \A c \in DOMAIN CategoryFlag :
    args = << CategoryFlag[c] >> =>
      /\ \A k \in 1..Len(requests) :
           requests[k].id # 0 => requests[k].resource = c
      /\ \A k \in 1..Len(results.captured) :
           configData.screenshots[results.captured[k]].category = c

(***************************************************************************)
(* generate-data.js.  The script never reads process.argv.  A REST request *)
(* is [method, resource, id]; a request that the engine answers with an    *)
(* error is issued all the same, and every helper catches its own error.   *)
(***************************************************************************)
Request(method, resource, id) ==
  [method |-> method, resource |-> resource, id |-> id]
\* The ids a sequence of requests names, in order.
IdsOf(rs) == [i \in 1..Len(rs) |-> rs[i].id]

\* Lines 291, 344 and 381: the instances started, the instances started and
\* completed, the decisions evaluated.
SIMPLE_WORKFLOW_INSTANCES == 5
COMPLETED_INSTANCES == 3
DECISION_EVALUATIONS == 3

\* The users and groups of config/test-data.json.
DataConfigs ==
  [users : {<< >>, << "john" >>, << "john", "mary", "peter" >>},
   groups : {<< >>, << "accounting" >>}]

\* The engine: reachable or not, the users and groups it holds, whether
\* processes and decisions are deployed, whether a started instance waits
\* at a task.
DataEngines ==
  [up : BOOLEAN, users : {{}, {"john"}}, groups : {{}, {"accounting"}},
   definitions : BOOLEAN, decisions : BOOLEAN, tasks : BOOLEAN]

\* The arguments the Makefile targets data, users and data-light pass.
DataArgs == {<< >>, << "--users-only" >>, << "--light" >>}

InitData ==
  /\ NoAnalyzer
  /\ script = "generate-data"
  /\ args \in DataArgs
  /\ configData \in DataConfigs
  /\ results = NoResults
  /\ engine \in DataEngines
  /\ requests = << >>
  /\ answer = << >>
  /\ prompts = << >>
  /\ stdout = << >>

\* n times the requests rs.
Repeat(n, rs) == Flatten([i \in 1..n |-> rs])

\* Lines 55-92.
createUser(user) ==
  << Request("GET", "user/profile", user) >>
  \o IF user \in engine.users THEN << >>
     ELSE << Request("POST", "user/create", user) >>

\* Lines 98-133.
createGroup(group) ==
  << Request("GET", "group", group) >>
  \o IF group \in engine.groups THEN << >>
     ELSE << Request("POST", "group/create", group) >>

\* Lines 135-149.
addUserToGroup(userId, groupId) ==
  << Request("PUT", "group/members", userId) >>

\* Lines 401-424.
setupUsersAndGroups(cfg) ==
  Flatten([u \in 1..Len(cfg.users) |-> createUser(cfg.users[u])])
  \o Flatten([g \in 1..Len(cfg.groups) |-> createGroup(cfg.groups[g])])
  \o addUserToGroup("demo", "camunda-admin")
  \o addUserToGroup("john", "accounting")
  \o addUserToGroup("mary", "management")
  \o addUserToGroup("peter", "sales")

\* Lines 153-180.
startProcessInstance == << Request("POST", "process-definition/start", "") >>

\* Lines 342-365: one instance started and, when it waits at a task,
\* completed.
startAndComplete ==
  startProcessInstance
  \o << Request("GET", "task", "") >>
  \o IF engine.tasks THEN << Request("POST", "task/complete", "") >> ELSE << >>

\* Lines 287-396.
createTestScenarios ==
  << Request("GET", "process-definition", "") >>
  \o IF ~ engine.definitions THEN << >>
     ELSE Repeat(SIMPLE_WORKFLOW_INSTANCES, startProcessInstance)
          \o Repeat(COMPLETED_INSTANCES, startAndComplete)
          \o << Request("GET", "decision-definition", "") >>
          \o IF engine.decisions
             THEN Repeat(DECISION_EVALUATIONS,
                         << Request("POST", "decision-definition/evaluate", "") >>)
             ELSE << >>

\* Lines 443-450: the configuration is read.
DataStart ==
  /\ pc = "start"
  /\ pc' = "connect"
  /\ UNCHANGED << analyzerVars, exitCode, stderr, scriptVars >>

\* Line 450: fs.readFile or JSON.parse throws.
DataStartThrows ==
  /\ pc = "start"
  /\ pc' = "fatal"
  /\ UNCHANGED << analyzerVars, exitCode, stderr, scriptVars >>

\* Lines 453-455.
DataConnect ==
  /\ pc = "connect"
  /\ engine.up
  /\ requests' = Append(requests, Request("GET", "engine", ""))
  /\ pc' = "users"
  /\ UNCHANGED << analyzerVars, exitCode, stderr, args, configData, results,
                  engine, answer, prompts, stdout >>

\* Lines 456-459.
DataConnectFails ==
  /\ pc = "connect"
  /\ ~ engine.up
  /\ requests' = Append(requests, Request("GET", "engine", ""))
  /\ stderr' = Append(stderr, "Failed to connect to Operaton:")
  /\ exitCode' = 1
  /\ pc' = "exited"
  /\ UNCHANGED << analyzerVars, args, configData, results, engine, answer,
                  prompts, stdout >>

\* Line 462.
DataSetupUsersAndGroups ==
  /\ pc = "users"
  /\ requests' = requests \o setupUsersAndGroups(configData)
  /\ pc' = "scenarios"
  /\ UNCHANGED << analyzerVars, exitCode, stderr, args, configData, results,
                  engine, answer, prompts, stdout >>

\* Lines 465-466: called whatever the arguments are.
DataCreateTestScenarios ==
  /\ pc = "scenarios"
  /\ requests' = requests \o createTestScenarios
  /\ pc' = "report"
  /\ UNCHANGED << analyzerVars, exitCode, stderr, args, configData, results,
                  engine, answer, prompts, stdout >>

\* Lines 469-475: the summary is printed and main resolves.
DataFinish ==
  /\ pc = "report"
  /\ exitCode' = 0
  /\ pc' = "exited"
  /\ UNCHANGED << analyzerVars, stderr, scriptVars >>

\* Lines 478-481.
DataFatal ==
  /\ pc = "fatal"
  /\ stderr' = Append(stderr, "Fatal error:")
  /\ exitCode' = 1
  /\ pc' = "exited"
  /\ UNCHANGED << analyzerVars, scriptVars >>

NextData ==
  \/ DataStart
  \/ DataStartThrows
  \/ DataConnect
  \/ DataConnectFails
  \/ DataSetupUsersAndGroups
  \/ DataCreateTestScenarios
  \/ DataFinish
  \/ DataFatal

SpecData == InitData /\ [][NextData]_vars

\* C16 as stated: a run with --users-only issues no request that starts a
\* process instance, completes a task or evaluates a decision.
C16_UsersOnly ==
  args = << "--users-only" >> =>
    \A k \in 1..Len(requests) :
      requests[k].resource \notin
        {"process-definition/start", "task/complete",
         "decision-definition/evaluate"}

(***************************************************************************)
(* reset-environment.js.  The engine holds a number of resources of each   *)
(* kind; a kind is named by the path of its REST resource.  When the       *)
(* engine refuses deletions, every DELETE is answered with an error.       *)
(***************************************************************************)
includes(list, x) == \E i \in 1..Len(list) : list[i] = x

\* Lines 39-44.
forceMode == includes(args, "--force")
instancesOnly == includes(args, "--instances-only")
deploymentsOnly == includes(args, "--deployments-only")
usersOnly == includes(args, "--users-only")
historyOnly == includes(args, "--history-only")

\* A list of users to delete that holds the demo user too.
CREATED_USERS_WITH_DEMO == << "demo", "john", "mary", "peter" >>

\* Lines 47-48.
CREATED_USERS == << "john", "mary", "peter" >>
CREATED_GROUPS == << "accounting", "management", "sales" >>

\* Line 406.
deleteAll == ~ instancesOnly /\ ~ deploymentsOnly /\ ~ usersOnly /\ ~ historyOnly

\* Lines 408-420: the parts of the question.
confirmMessage ==
  IF deleteAll THEN << "ALL data from Operaton" >>
  ELSE (IF instancesOnly THEN << "process instances" >> ELSE << >>)
       \o (IF deploymentsOnly THEN << "deployments" >> ELSE << >>)
       \o (IF usersOnly THEN << "users and groups" >> ELSE << >>)
       \o (IF historyOnly THEN << "history data" >> ELSE << >>)

\* An answer check that accepts every answer that begins with y.
confirmAnswerPrefix(ans) == startsWith(toLowerCase(ans), << "y" >>)

\* Line 69: answer.toLowerCase() === 'y'.
confirmAnswer(ans) == toLowerCase(ans) = << "y" >>

\* The arguments: every set of the five flags, in a fixed order.
ResetFlags == << "--force", "--instances-only", "--deployments-only",
                 "--users-only", "--history-only" >>
RECURSIVE FlagsFrom(_, _)
FlagsFrom(i, S) ==
  IF i > Len(ResetFlags) THEN << >>
  ELSE (IF i \in S THEN << ResetFlags[i] >> ELSE << >>) \o FlagsFrom(i + 1, S)
ResetArgs == {FlagsFrom(1, S) : S \in SUBSET (1..Len(ResetFlags))}

\* The lines a user may type at the prompt.
Answers == {<< "y" >>, << "Y" >>, << "n" >>, << >>, << "y", "e", "s" >>,
            << "N" >>}

\* The kinds of resources the list-and-delete functions work on.
ListedKinds == {"job", "process-instance", "history/process-instance",
                "history/decision-instance", "history/batch", "batch",
                "deployment"}
MaxPerKind == 1
Inventories ==
  {[k \in ListedKinds |-> n] : n \in 0..MaxPerKind}
  \cup {[k \in ListedKinds |-> IF k = "process-instance" THEN MaxPerKind ELSE 0]}
ResetEngines ==
  {NoEngine} \cup [up : {TRUE}, refuses : BOOLEAN, inventory : Inventories]

InitReset ==
  /\ NoAnalyzer
  /\ script = "reset-environment"
  /\ args \in ResetArgs
  /\ configData = NoConfig
  /\ results = NoResults
  /\ engine \in ResetEngines
  /\ requests = << >>
  /\ answer \in Answers
  /\ prompts = << >>
  /\ stdout = << >>

\* The blocks of lines 443-471.
runsInstances == deleteAll \/ instancesOnly

\* A history block that runs for --instances-only as well.
runsHistoryWithInstances == deleteAll \/ historyOnly \/ instancesOnly

runsHistory == deleteAll \/ historyOnly
runsBatches == deleteAll
runsDeployments == deleteAll \/ deploymentsOnly
runsBeforeDeployments == runsDeployments /\ ~ instancesOnly /\ ~ deleteAll

\* A users block that runs for --deployments-only as well.
runsUsersWithDeployments == deleteAll \/ usersOnly \/ deploymentsOnly

runsUsers == deleteAll \/ usersOnly

\* The calls of lines 443-471 in program order, each with the condition
\* under which it is made.
Steps ==
  << [at |-> "jobs", runs |-> runsInstances],
     [at |-> "instances", runs |-> runsInstances],
     [at |-> "historicInstances", runs |-> runsHistory],
     [at |-> "decisionInstances", runs |-> runsHistory],
     [at |-> "historicBatches", runs |-> runsHistory],
     [at |-> "batches", runs |-> runsBatches],
     [at |-> "jobsFirst", runs |-> runsBeforeDeployments],
     [at |-> "instancesFirst", runs |-> runsBeforeDeployments],
     [at |-> "historicInstancesFirst", runs |-> runsBeforeDeployments],
     [at |-> "deployments", runs |-> runsDeployments],
     [at |-> "users", runs |-> runsUsers],
     [at |-> "groups", runs |-> runsUsers] >>

\* The first call made after position i of Steps, "summary" after the last.
StepAfter(i) ==
  LET later == {j \in (i + 1)..Len(Steps) : Steps[j].runs}
  IN IF later = {} THEN "summary" ELSE Steps[SetMin(later)].at
FirstStep == StepAfter(0)
AfterStep(at) == StepAfter(CHOOSE i \in 1..Len(Steps) : Steps[i].at = at)

\* The GET that lists a kind, then one DELETE for each resource found; a
\* refused deletion is tried again `tries' times in all.
listAndDelete(kind, tries) ==
  << Request("GET", kind, "") >>
  \o Repeat(engine.inventory[kind],
            Repeat(IF engine.refuses THEN tries ELSE 1,
                   << Request("DELETE", kind, "") >>))
\* The engine after the deletions of a kind.
Deleted(kind) ==
  IF engine.refuses THEN engine
  ELSE [engine EXCEPT !.inventory[kind] = 0]

\* Lines 275-293 and 298-316: one DELETE for each created id.
deleteEach(kind, ids) ==
  [i \in 1..Len(ids) |-> Request("DELETE", kind, ids[i])]

resetFrame == << analyzerVars, exitCode, stderr, args, configData, results,
                 answer, prompts, stdout >>

\* Lines 396-399.
ResetConnect ==
  /\ pc = "start"
  /\ engine.up
  /\ requests' = Append(requests, Request("GET", "engine", ""))
  /\ pc' = "confirm"
  /\ UNCHANGED << resetFrame, engine >>

\* Lines 400-403.
ResetConnectFails ==
  /\ pc = "start"
  /\ ~ engine.up
  /\ requests' = Append(requests, Request("GET", "engine", ""))
  /\ stderr' = Append(stderr, "Failed to connect to Operaton:")
  /\ exitCode' = 1
  /\ pc' = "exited"
  /\ UNCHANGED << analyzerVars, args, configData, results, engine, answer,
                  prompts, stdout >>

\* Lines 59 and 426: with --force confirm returns true without a question.
ResetConfirmForce ==
  /\ pc = "confirm"
  /\ forceMode
  /\ pc' = FirstStep
  /\ UNCHANGED << resetFrame, engine, requests >>

\* Lines 61-67: the question is asked.
ResetAsk ==
  /\ pc = "confirm"
  /\ ~ forceMode
  /\ prompts' = Append(prompts, confirmMessage)
  /\ pc' = "question"
  /\ UNCHANGED << analyzerVars, exitCode, stderr, args, configData, results,
                  answer, engine, requests, stdout >>

\* Lines 67-69 and 426: the answer is y or Y.
ResetAnswerYes ==
  /\ pc = "question"
  /\ confirmAnswer(answer)
  /\ pc' = FirstStep
  /\ UNCHANGED << resetFrame, engine, requests >>

\* Lines 426-429: any other answer; 'Aborted.' and process.exit(0).
ResetAbort ==
  /\ pc = "question"
  /\ ~ confirmAnswer(answer)
  /\ exitCode' = 0
  /\ pc' = "exited"
  /\ UNCHANGED << analyzerVars, stderr, scriptVars >>

\* Lines 355-384, called at lines 444 and 461.
ResetDeleteJobs ==
  /\ pc \in {"jobs", "jobsFirst"}
  /\ requests' = requests \o listAndDelete("job", 1)
  /\ engine' = Deleted("job")
  /\ pc' = AfterStep(pc)
  /\ UNCHANGED resetFrame

\* Lines 81-123, called at lines 445 and 462: a refused deletion is tried
\* once more with skipSubprocesses.
ResetDeleteProcessInstances ==
  /\ pc \in {"instances", "instancesFirst"}
  /\ requests' = requests \o listAndDelete("process-instance", 2)
  /\ engine' = Deleted("process-instance")
  /\ pc' = AfterStep(pc)
  /\ UNCHANGED resetFrame

\* Lines 128-160, called at lines 449 and 463.
ResetDeleteHistoricInstances ==
  /\ pc \in {"historicInstances", "historicInstancesFirst"}
  /\ requests' = requests \o listAndDelete("history/process-instance", 1)
  /\ engine' = Deleted("history/process-instance")
  /\ pc' = AfterStep(pc)
  /\ UNCHANGED resetFrame

\* Lines 321-350, called at line 450.
ResetDeleteDecisionInstances ==
  /\ pc = "decisionInstances"
  /\ requests' = requests \o listAndDelete("history/decision-instance", 1)
  /\ engine' = Deleted("history/decision-instance")
  /\ pc' = AfterStep(pc)
  /\ UNCHANGED resetFrame

\* Lines 243-270, called at line 451.
ResetDeleteHistoricBatches ==
  /\ pc = "historicBatches"
  /\ requests' = requests \o listAndDelete("history/batch", 1)
  /\ engine' = Deleted("history/batch")
  /\ pc' = AfterStep(pc)
  /\ UNCHANGED resetFrame

\* Lines 208-238, called at line 455.
ResetDeleteBatches ==
  /\ pc = "batches"
  /\ requests' = requests \o listAndDelete("batch", 1)
  /\ engine' = Deleted("batch")
  /\ pc' = AfterStep(pc)
  /\ UNCHANGED resetFrame

\* Lines 165-203, called at line 465.
ResetDeleteDeployments ==
  /\ pc = "deployments"
  /\ requests' = requests \o listAndDelete("deployment", 1)
  /\ engine' = Deleted("deployment")
  /\ pc' = AfterStep(pc)
  /\ UNCHANGED resetFrame

\* Lines 275-293, called at line 469.
ResetDeleteUsers ==
  /\ pc = "users"
  /\ requests' = requests \o deleteEach("user", CREATED_USERS)
  /\ pc' = AfterStep(pc)
  /\ UNCHANGED << resetFrame, engine >>

\* Lines 298-316, called at line 470.
ResetDeleteGroups ==
  /\ pc = "groups"
  /\ requests' = requests \o deleteEach("group", CREATED_GROUPS)
  /\ pc' = AfterStep(pc)
  /\ UNCHANGED << resetFrame, engine >>

\* Lines 473-492: the summary is printed and main resolves.
ResetSummary ==
  /\ pc = "summary"
  /\ exitCode' = 0
  /\ pc' = "exited"
  /\ UNCHANGED << analyzerVars, stderr, scriptVars >>

NextReset ==
  \/ ResetConnect
  \/ ResetConnectFails
  \/ ResetConfirmForce
  \/ ResetAsk
  \/ ResetAnswerYes
  \/ ResetAbort
  \/ ResetDeleteJobs
  \/ ResetDeleteProcessInstances
  \/ ResetDeleteHistoricInstances
  \/ ResetDeleteDecisionInstances
  \/ ResetDeleteHistoricBatches
  \/ ResetDeleteBatches
  \/ ResetDeleteDeployments
  \/ ResetDeleteUsers
  \/ ResetDeleteGroups
  \/ ResetSummary

SpecReset == InitReset /\ [][NextReset]_vars

\* The kinds of resources for which a DELETE request has been issued.
DeletedKinds ==
  {requests[k].resource : k \in {i \in 1..Len(requests) : requests[i].method = "DELETE"}}
HasFlag(flag) == \E i \in 1..Len(args) : args[i] = flag
AnsweredYes == answer \in {<< "y" >>, << "Y" >>}
\* The run got past the connection check.
Connected == pc # "start" /\ engine.up

\* C17: without --force no DELETE is issued before the question has been
\* asked and answered with y or Y; on any other answer no DELETE is issued
\* at all and the run ends with status 0; with --force no question is asked
\* and the run goes on to the deletions.
C17_GatedByConfirmation ==
  /\ ~ HasFlag("--force") =>
       /\ DeletedKinds # {} =>
            (Len(prompts) = 1 /\ AnsweredYes /\ pc \notin {"start", "confirm", "question"})
       /\ (Connected /\ pc \notin {"confirm", "question"} /\ AnsweredYes)
            => Len(prompts) = 1
       /\ ~ AnsweredYes =>
            /\ DeletedKinds = {}
            /\ pc \in {"start", "confirm", "question", "exited"}
            /\ (Exited /\ Connected) => (exitCode = 0 /\ Len(prompts) = 1)
  /\ HasFlag("--force") =>
       /\ prompts = << >>
       /\ pc # "question"
       /\ (Exited /\ Connected) => (exitCode = 0 /\ Len(requests) > 1)

\* A run without --force that asked, was answered Y, and has issued DELETE
\* requests.
C17_Witness ==
  /\ ~ HasFlag("--force")
  /\ answer = << "Y" >>
  /\ Len(prompts) = 1
  /\ "deployment" \in DeletedKinds
  /\ "user" \in DeletedKinds
  /\ Exited

\* --instances-only and no other *-only flag.
OnlyInstancesFlag ==
  /\ HasFlag("--instances-only")
  /\ ~ HasFlag("--deployments-only")
  /\ ~ HasFlag("--users-only")
  /\ ~ HasFlag("--history-only")

OnlyDeploymentsFlag ==
  /\ HasFlag("--deployments-only")
  /\ ~ HasFlag("--instances-only")
  /\ ~ HasFlag("--users-only")
  /\ ~ HasFlag("--history-only")

DeleteTargets(kind) ==
  LET IsDeleteOfKind(r) == r.method = "DELETE" /\ r.resource = kind
  IN IdsOf(SelectSeq(requests, IsDeleteOfKind))
TargetSet(kind) == {DeleteTargets(kind)[i] : i \in 1..Len(DeleteTargets(kind))}

\* C22: under every set of flags a DELETE on a user names john, mary or
\* peter and a DELETE on a group names accounting, management or sales;
\* none names demo, admin or camunda-admin.
C22_OnlyCreatedUsersAndGroups ==
  /\ TargetSet("user") \subseteq {"john", "mary", "peter"}
  /\ TargetSet("group") \subseteq {"accounting", "management", "sales"}
  /\ (TargetSet("user") \cup TargetSet("group"))
       \cap {"demo", "admin", "camunda-admin"} = {}

\* An ended run that asked for the deletion of the three users and of the
\* three groups.
C22_Witness ==
  /\ Exited
  /\ DeleteTargets("user") = << "john", "mary", "peter" >>
  /\ DeleteTargets("group") = << "accounting", "management", "sales" >>

(***************************************************************************)
(* simulate-scenarios.js.  A scenario group writes its heading, lists the  *)
(* process definitions and, when the invoice process is deployed, starts   *)
(* one instance for each of its scenarios; the task requests that follow a *)
(* start depend on the engine's answers and are not recorded.              *)
(***************************************************************************)
\* Lines 46-49.
runTokens == includes(args, "--tokens") \/ Len(args) = 0

\* A history flag that does not run without arguments.
runHistoryFlagOnly == includes(args, "--history")

runHistory == includes(args, "--history") \/ Len(args) = 0
runTasks == includes(args, "--tasks") \/ Len(args) = 0

\* Lines 188-225, 291-309 and 384-454: the instances each group starts.
TOKEN_SCENARIOS == 3
HISTORY_INSTANCES == 3 + 2 + 2 + 2 + 1
TASK_SCENARIOS == 6

\* The arguments: every set of the three flags and of one argument the
\* script does not know, in a fixed order.
SimFlags == << "--tokens", "--history", "--tasks", "--verbose" >>
RECURSIVE SimFlagsFrom(_, _)
SimFlagsFrom(i, S) ==
  IF i > Len(SimFlags) THEN << >>
  ELSE (IF i \in S THEN << SimFlags[i] >> ELSE << >>) \o SimFlagsFrom(i + 1, S)
SimArgs == {SimFlagsFrom(1, S) : S \in SUBSET (1..Len(SimFlags))}

\* The engine: reachable or not, the invoice process deployed or not.
SimEngines == {NoEngine} \cup [up : {TRUE}, invoice : BOOLEAN]

InitSim ==
  /\ NoAnalyzer
  /\ script = "simulate-scenarios"
  /\ args \in SimArgs
  /\ configData = NoConfig
  /\ results = NoResults
  /\ engine \in SimEngines
  /\ requests = << >>
  /\ answer = << >>
  /\ prompts = << >>
  /\ stdout = << >>

\* Lines 534-544 in program order.
SimSteps ==
  << [at |-> "tokens", runs |-> runTokens],
     [at |-> "history", runs |-> runHistory],
     [at |-> "tasks", runs |-> runTasks] >>
SimStepAfter(i) ==
  LET later == {j \in (i + 1)..Len(SimSteps) : SimSteps[j].runs}
  IN IF later = {} THEN "complete" ELSE SimSteps[SetMin(later)].at

\* Lines 180-186, 282-288, 376-382 and the scenario loops.
scenarioRequests(n) ==
  << Request("GET", "process-definition", "") >>
  \o IF engine.invoice
     THEN Repeat(n, << Request("POST", "process-definition/key/invoice/start", "") >>)
     ELSE << >>

simFrame == << analyzerVars, exitCode, stderr, args, configData, results,
               engine, answer, prompts >>

\* Lines 525-527.
SimConnect ==
  /\ pc = "start"
  /\ engine.up
  /\ requests' = Append(requests, Request("GET", "engine", ""))
  /\ stdout' = Append(stdout, "Connected to Operaton")
  /\ pc' = SimStepAfter(0)
  /\ UNCHANGED simFrame

\* Lines 528-531.
SimConnectFails ==
  /\ pc = "start"
  /\ ~ engine.up
  /\ requests' = Append(requests, Request("GET", "engine", ""))
  /\ stderr' = Append(stderr, "Failed to connect to Operaton:")
  /\ exitCode' = 1
  /\ pc' = "exited"
  /\ UNCHANGED << analyzerVars, args, configData, results, engine, answer,
                  prompts, stdout >>

\* Lines 176-273, called at line 535.
simulateTokenPositions ==
  /\ pc = "tokens"
  /\ stdout' = Append(stdout, "Simulating Token Positions")
  /\ requests' = requests \o scenarioRequests(TOKEN_SCENARIOS)
  /\ pc' = SimStepAfter(1)
  /\ UNCHANGED simFrame

\* Lines 278-368, called at line 539.
simulateHistoryData ==
  /\ pc = "history"
  /\ stdout' = Append(stdout, "Generating History Data")
  /\ requests' = requests \o scenarioRequests(HISTORY_INSTANCES)
  /\ pc' = SimStepAfter(2)
  /\ UNCHANGED simFrame

\* Lines 373-512, called at line 543.
simulateTaskStates ==
  /\ pc = "tasks"
  /\ stdout' = Append(stdout, "Creating Tasks in Various States")
  /\ requests' = requests \o scenarioRequests(TASK_SCENARIOS)
  /\ pc' = SimStepAfter(3)
  /\ UNCHANGED simFrame

\* Lines 546-555: 'Simulation Complete' and main resolves.
SimComplete ==
  /\ pc = "complete"
  /\ stdout' = Append(stdout, "Simulation Complete")
  /\ exitCode' = 0
  /\ pc' = "exited"
  /\ UNCHANGED << analyzerVars, stderr, args, configData, results, engine,
                  requests, answer, prompts >>

NextSim ==
  \/ SimConnect
  \/ SimConnectFails
  \/ simulateTokenPositions
  \/ simulateHistoryData
  \/ simulateTaskStates
  \/ SimComplete

SpecSim == InitSim /\ [][NextSim]_vars

\* The headings of the scenario groups that have run, in order.
GroupHeadings ==
  {"Simulating Token Positions", "Generating History Data",
   "Creating Tasks in Various States"}
IsGroupHeading(line) == line \in GroupHeadings
GroupsRun == SelectSeq(stdout, IsGroupHeading)
AllGroups ==
  << "Simulating Token Positions", "Generating History Data",
     "Creating Tasks in Various States" >>
IsPrefix(a, b) == Len(a) <= Len(b) /\ SubSeq(b, 1, Len(a)) = a

\* C20: without arguments the three groups run in the order token positions,
\* history data, task states; with only --tokens the token group runs and
\* no other; with only --history the history group runs and no other; no
\* group runs, and no request of a group is issued, before the connection
\* check has succeeded.
C20_GroupsFromArguments ==
  /\ args = << >> =>
       /\ IsPrefix(GroupsRun, AllGroups)
       /\ (Exited /\ exitCode = 0) => GroupsRun = AllGroups
  /\ args = << "--tokens" >> =>
       /\ IsPrefix(GroupsRun, << "Simulating Token Positions" >>)
       /\ (Exited /\ exitCode = 0) => GroupsRun = << "Simulating Token Positions" >>
  /\ args = << "--history" >> =>
       /\ IsPrefix(GroupsRun, << "Generating History Data" >>)
       /\ (Exited /\ exitCode = 0) => GroupsRun = << "Generating History Data" >>
  /\ (GroupsRun # << >> \/ Len(requests) > 1) =>
       /\ engine.up
       /\ Len(stdout) >= 1 /\ stdout[1] = "Connected to Operaton"
       /\ Len(requests) >= 1 /\ requests[1] = Request("GET", "engine", "")
  /\ ~ engine.up => (GroupsRun = << >> /\ (Exited => exitCode = 1))

\* A run without arguments that ended after the three groups, each of which
\* started its instances.
C20_Witness ==
  /\ args = << >>
  /\ Exited
  /\ exitCode = 0
  /\ GroupsRun = AllGroups
  /\ Len(requests) = 1 + 3 + TOKEN_SCENARIOS + HISTORY_INSTANCES + TASK_SCENARIOS

(***************************************************************************)
(* create-incidents.js                                                     *)
(*                                                                         *)
(* A run deploys failing processes and starts instances of them, chosen    *)
(* from the arguments.  A deployment is recorded under the deployment      *)
(* name, a start under the process key, the failure of an external task    *)
(* under the id of the task.  deployProcess and startProcess catch their   *)
(* own errors (lines 68-78 and 84-105) and the run goes on either way, so  *)
(* the requests issued do not depend on the engine accepting them.         *)
(***************************************************************************)
\* Lines 44-48.
createScriptErrors == includes(args, "--script-errors") \/ Len(args) = 0
createServiceErrors == includes(args, "--service-errors") \/ Len(args) = 0
createExpressionErrors == includes(args, "--expression-errors") \/ Len(args) = 0

\* A job flag that does not run without arguments.
createJobErrorsFlagOnly == includes(args, "--job-errors")

createJobErrors == includes(args, "--job-errors") \/ Len(args) = 0

\* Lines 292, 309, 340 and 361: the instances started of each process.
SCRIPT_INSTANCES == 3
SERVICE_INSTANCES == 2
JOB_INSTANCES == 2
EXTERNAL_TASK_INSTANCES == 2

\* The arguments: every set of the four flags and of one argument the
\* script does not know, in a fixed order.
IncidentFlags ==
  << "--script-errors", "--service-errors", "--expression-errors",
     "--job-errors", "--verbose" >>
RECURSIVE IncidentFlagsFrom(_, _)
IncidentFlagsFrom(i, S) ==
  IF i > Len(IncidentFlags) THEN << >>
  ELSE (IF i \in S THEN << IncidentFlags[i] >> ELSE << >>)
       \o IncidentFlagsFrom(i + 1, S)
IncidentArgs == {IncidentFlagsFrom(1, S) : S \in SUBSET (1..Len(IncidentFlags))}

\* The engine: reachable or not; the external tasks fetchAndLock answers
\* with, or its refusal; whether it refuses the failure of a task.
MaxExternalTasks == 2
ExternalTaskIds == << "task-1", "task-2", "task-3" >>
IncidentEngines ==
  {NoEngine}
  \cup [up : {TRUE},
        fetchFails : BOOLEAN,
        tasks : {SubSeq(ExternalTaskIds, 1, n) : n \in 0..MaxExternalTasks},
        failureFails : BOOLEAN]

InitIncidents ==
  /\ NoAnalyzer
  /\ script = "create-incidents"
  /\ args \in IncidentArgs
  /\ configData = NoConfig
  /\ results = NoResults
  /\ engine \in IncidentEngines
  /\ requests = << >>
  /\ answer = << >>
  /\ prompts = << >>
  /\ stdout = << >>

\* Lines 457-472 in program order; createExternalTaskIncidents follows
\* createJobIncidents inside the same if.
IncidentSteps ==
  << [at |-> "script", runs |-> createScriptErrors],
     [at |-> "service", runs |-> createServiceErrors],
     [at |-> "expression", runs |-> createExpressionErrors],
     [at |-> "job", runs |-> createJobErrors] >>
IncidentStepAfter(i) ==
  LET later == {j \in (i + 1)..Len(IncidentSteps) : IncidentSteps[j].runs}
  IN IF later = {} THEN "summary" ELSE IncidentSteps[SetMin(later)].at

\* Lines 58-78: POST /deployment/create.
deployProcess(name) == << Request("POST", "deployment/create", name) >>

\* Lines 83-105: POST /process-definition/key/<processKey>/start.
startProcess(processKey) ==
  << Request("POST", "process-definition/key/start", processKey) >>

\* Lines 371-401: fetchAndLock, then the failure of each task fetched; an
\* error of either request ends the block.
failExternalTasks ==
  << Request("POST", "external-task/fetchAndLock", "") >>
  \o IF engine.fetchFails \/ Len(engine.tasks) = 0 THEN << >>
     ELSE IF engine.failureFails
          THEN << Request("POST", "external-task/failure", engine.tasks[1]) >>
          ELSE [i \in 1..Len(engine.tasks) |->
                  Request("POST", "external-task/failure", engine.tasks[i])]

incidentFrame == << analyzerVars, exitCode, stderr, args, configData, results,
                    engine, answer, prompts >>

\* Lines 449-451.
IncidentsConnect ==
  /\ pc = "start"
  /\ engine.up
  /\ requests' = Append(requests, Request("GET", "engine", ""))
  /\ stdout' = Append(stdout, "Connected to Operaton")
  /\ pc' = IncidentStepAfter(0)
  /\ UNCHANGED incidentFrame

\* A failed connection test that logs the error and goes on.
IncidentsConnectFailsGoesOn ==
  /\ pc = "start"
  /\ ~ engine.up
  /\ requests' = Append(requests, Request("GET", "engine", ""))
  /\ stderr' = Append(stderr, "Failed to connect to Operaton:")
  /\ pc' = IncidentStepAfter(0)
  /\ UNCHANGED << analyzerVars, exitCode, args, configData, results, engine,
                  answer, prompts, stdout >>

\* Lines 452-455.
IncidentsConnectFails ==
  /\ pc = "start"
  /\ ~ engine.up
  /\ requests' = Append(requests, Request("GET", "engine", ""))
  /\ stderr' = Append(stderr, "Failed to connect to Operaton:")
  /\ exitCode' = 1
  /\ pc' = "exited"
  /\ UNCHANGED << analyzerVars, args, configData, results, engine, answer,
                  prompts, stdout >>

\* Lines 284-299, called at line 459.
createScriptIncidents ==
  /\ pc = "script"
  /\ stdout' = Append(stdout, "Creating Script Task Incidents")
  /\ requests' = requests \o deployProcess("failing-script-process")
                 \o Repeat(SCRIPT_INSTANCES, startProcess("failing-script-process"))
  /\ pc' = IncidentStepAfter(1)
  /\ UNCHANGED incidentFrame

\* Lines 301-316, called at line 463.
createServiceIncidents ==
  /\ pc = "service"
  /\ stdout' = Append(stdout, "Creating Service Task Incidents")
  /\ requests' = requests \o deployProcess("failing-service-process")
                 \o Repeat(SERVICE_INSTANCES, startProcess("failing-service-process"))
  /\ pc' = IncidentStepAfter(2)
  /\ UNCHANGED incidentFrame

\* Lines 318-330, called at line 467.
createExpressionIncidents ==
  /\ pc = "expression"
  /\ stdout' = Append(stdout, "Creating Expression Evaluation Incidents")
  /\ requests' = requests \o deployProcess("failing-expression-process")
                 \o startProcess("failing-expression-process")
  /\ pc' = IncidentStepAfter(3)
  /\ UNCHANGED incidentFrame

\* Lines 332-351, called at line 471.
createJobIncidents ==
  /\ pc = "job"
  /\ stdout' = Append(stdout, "Creating Async Job Incidents")
  /\ requests' = requests \o deployProcess("failing-job-process")
                 \o Repeat(JOB_INSTANCES, startProcess("failing-job-process"))
  /\ pc' = "external"
  /\ UNCHANGED incidentFrame

\* Lines 353-404, called at line 472.
createExternalTaskIncidents ==
  /\ pc = "external"
  /\ stdout' = Append(stdout, "Creating External Task Incidents")
  /\ requests' = requests \o deployProcess("external-task-process")
                 \o Repeat(EXTERNAL_TASK_INSTANCES, startProcess("external-task-process"))
                 \o failExternalTasks
  /\ pc' = IncidentStepAfter(4)
  /\ UNCHANGED incidentFrame

\* Lines 410-436 and 475-485: the summary, and main resolves.
printSummary ==
  /\ pc = "summary"
  /\ requests' = requests \o << Request("GET", "incident", ""),
                                Request("GET", "job", "") >>
  /\ stdout' = Append(stdout, "Incident Summary")
  /\ exitCode' = 0
  /\ pc' = "exited"
  /\ UNCHANGED << analyzerVars, stderr, args, configData, results, engine,
                  answer, prompts >>

NextIncidents ==
  \/ IncidentsConnect
  \/ IncidentsConnectFails
  \/ createScriptIncidents
  \/ createServiceIncidents
  \/ createExpressionIncidents
  \/ createJobIncidents
  \/ createExternalTaskIncidents
  \/ printSummary

SpecIncidents == InitIncidents /\ [][NextIncidents]_vars

\* The deployments and the starts requested so far, in order, and the
\* requests on external tasks.
IsDeployment(r) == r.method = "POST" /\ r.resource = "deployment/create"
IsStart(r) == r.method = "POST" /\ r.resource = "process-definition/key/start"
IsExternalTaskRequest(r) ==
  r.resource \in {"external-task/fetchAndLock", "external-task/failure"}
Deployed == IdsOf(SelectSeq(requests, IsDeployment))
Started == IdsOf(SelectSeq(requests, IsStart))
ExternalTaskRequests == SelectSeq(requests, IsExternalTaskRequest)
ALL_KINDS ==
  << "failing-script-process", "failing-service-process",
     "failing-expression-process", "failing-job-process",
     "external-task-process" >>
Finished == Exited /\ exitCode = 0

\* C21: without arguments the five failing processes are deployed in the
\* order script, service, expression, async job, external task, and the
\* external tasks are fetched; with only --script-errors the failing-script
\* process is the only one deployed and started, and with only
\* --service-errors the failing-service process is; in both no external
\* task is fetched or failed.
C21_KindsFromArguments ==
  /\ args = << >> =>
       /\ IsPrefix(Deployed, ALL_KINDS)
       /\ Finished =>
            /\ Deployed = ALL_KINDS
            /\ \E i \in 1..Len(requests) :
                 requests[i].resource = "external-task/fetchAndLock"
  /\ args = << "--script-errors" >> =>
       /\ IsPrefix(Deployed, << "failing-script-process" >>)
       /\ \A i \in 1..Len(Started) : Started[i] = "failing-script-process"
       /\ ExternalTaskRequests = << >>
       /\ Finished =>
            /\ Deployed = << "failing-script-process" >>
            /\ Len(Started) = SCRIPT_INSTANCES
  /\ args = << "--service-errors" >> =>
       /\ IsPrefix(Deployed, << "failing-service-process" >>)
       /\ \A i \in 1..Len(Started) : Started[i] = "failing-service-process"
       /\ ExternalTaskRequests = << >>
       /\ Finished =>
            /\ Deployed = << "failing-service-process" >>
            /\ Len(Started) = SERVICE_INSTANCES

\* A run with only --script-errors that ended after deploying the
\* failing-script process and starting its instances.
C21_Witness ==
  /\ args = << "--script-errors" >>
  /\ Finished
  /\ Deployed = << "failing-script-process" >>
  /\ Len(Started) = SCRIPT_INSTANCES
  /\ ExternalTaskRequests = << >>

(***************************************************************************)
(* deploy-processes.js                                                     *)
(*                                                                         *)
(* The configuration lists processes and decisions, each with a name and   *)
(* a file; `found' tells whether fs.access finds the file when the entry   *)
(* is reached.  A deployment is recorded under the deployment name.        *)
(***************************************************************************)
ConfigEntry(name, found) == [name |-> name, found |-> found]
DeployConfigs ==
  [processes :
     {<< >>} \cup {<< ConfigEntry("invoice", f) >> : f \in BOOLEAN},
   decisions :
     {<< >>}
     \cup {<< ConfigEntry("invoice-assign-approver", f) >> : f \in BOOLEAN}
     \cup {<< ConfigEntry("invoice-assign-approver", f),
              ConfigEntry("dish-decision", g) >> : f, g \in BOOLEAN}]

\* The engine: reachable or not, whether it refuses a deployment.
DeployEngines == {NoEngine} \cup [up : {TRUE}, rejects : BOOLEAN]

InitDeploy ==
  /\ NoAnalyzer
  /\ script = "deploy-processes"
  /\ args = << >>
  /\ configData \in DeployConfigs
  /\ results = NoResults
  /\ engine \in DeployEngines
  /\ requests = << >>
  /\ answer = << >>
  /\ prompts = << >>
  /\ stdout = << >>

\* Lines 121-161: the entries in the order of the two loops.
ConfigEntries == configData.processes \o configData.decisions
NamesOf(entries) == [i \in 1..Len(entries) |-> entries[i].name]
IsFound(e) == e.found
IsMissing(e) == ~ e.found

\* Lines 75-113, called at lines 134 and 153 for each entry whose file is
\* found.
deployFound ==
  LET found == NamesOf(SelectSeq(ConfigEntries, IsFound))
  IN [i \in 1..Len(found) |-> Request("POST", "deployment/create", found[i])]

deployFrame == << analyzerVars, exitCode, stderr, args, configData, results,
                  engine, answer, prompts >>

\* Lines 44-49 and 311: checkConnection answers true.
DeployConnect ==
  /\ pc = "start"
  /\ engine.up
  /\ requests' = Append(requests, Request("GET", "engine", ""))
  /\ stdout' = Append(stdout, "Connected to Operaton")
  /\ pc' = "samples"
  /\ UNCHANGED deployFrame

\* Lines 50-57 and 311-314: checkConnection answers false.
DeployConnectFails ==
  /\ pc = "start"
  /\ ~ engine.up
  /\ requests' = Append(requests, Request("GET", "engine", ""))
  /\ stderr' = stderr \o << "Failed to connect to Operaton:",
                            "Cannot proceed without connection to Operaton" >>
  /\ exitCode' = 1
  /\ pc' = "exited"
  /\ UNCHANGED << analyzerVars, args, configData, results, engine, answer,
                  prompts, stdout >>

\* Lines 167-298, called at line 318: local files only.
createSampleProcesses ==
  /\ pc = "samples"
  /\ stdout' = Append(stdout, "Checking sample processes...")
  /\ pc' = "existing"
  /\ UNCHANGED << deployFrame, requests >>

\* Lines 171-173 and 287-297: fs.mkdir or fs.writeFile throws.
createSampleProcessesThrows ==
  /\ pc = "samples"
  /\ stdout' = Append(stdout, "Checking sample processes...")
  /\ pc' = "fatal"
  /\ UNCHANGED << deployFrame, requests >>

\* Lines 63-71, called at line 322.
getExistingDeployments ==
  /\ pc = "existing"
  /\ requests' = Append(requests, Request("GET", "deployment", ""))
  /\ stdout' = Append(stdout, "Existing deployments:")
  /\ pc' = "deploy"
  /\ UNCHANGED deployFrame

\* Lines 118-164, called at line 335.
deployAllProcesses ==
  /\ pc = "deploy"
  /\ requests' = requests \o deployFound
  /\ results' =
       [deployed |-> IF engine.rejects THEN << >>
                     ELSE NamesOf(SelectSeq(ConfigEntries, IsFound)),
        failed |-> IF engine.rejects
                   THEN NamesOf(SelectSeq(ConfigEntries, IsFound))
                   ELSE << >>,
        skipped |-> NamesOf(SelectSeq(ConfigEntries, IsMissing))]
  /\ pc' = "summary"
  /\ UNCHANGED << analyzerVars, exitCode, stderr, args, configData, engine,
                  answer, prompts, stdout >>

\* Line 119: fs.readFile or JSON.parse of the configuration throws.
deployAllProcessesThrows ==
  /\ pc = "deploy"
  /\ pc' = "fatal"
  /\ UNCHANGED << analyzerVars, exitCode, stderr, scriptVars >>

\* Lines 337-358: the summary is printed and main resolves.
DeploySummary ==
  /\ pc = "summary"
  /\ stdout' = Append(stdout, "Deployment Summary")
  /\ exitCode' = 0
  /\ pc' = "exited"
  /\ UNCHANGED << analyzerVars, stderr, args, configData, results, engine,
                  requests, answer, prompts >>

\* Lines 361-364.
DeployFatal ==
  /\ pc = "fatal"
  /\ stderr' = Append(stderr, "Fatal error:")
  /\ exitCode' = 1
  /\ pc' = "exited"
  /\ UNCHANGED << analyzerVars, scriptVars >>

NextDeploy ==
  \/ DeployConnect
  \/ DeployConnectFails
  \/ createSampleProcesses
  \/ createSampleProcessesThrows
  \/ getExistingDeployments
  \/ deployAllProcesses
  \/ deployAllProcessesThrows
  \/ DeploySummary
  \/ DeployFatal

(***************************************************************************)
(* The four scripts that change the engine: node runs one of them, which   *)
(* `script' names.                                                         *)
(***************************************************************************)
InitMutating == InitDeploy \/ InitData \/ InitIncidents \/ InitReset

NextMutating ==
  \/ script = "deploy-processes" /\ NextDeploy
  \/ script = "generate-data" /\ NextData
  \/ script = "create-incidents" /\ NextIncidents
  \/ script = "reset-environment" /\ NextReset

SpecMutating == InitMutating /\ [][NextMutating]_vars

IsMutating(r) == r.method \in {"POST", "PUT", "DELETE"}
MutatingRequests == SelectSeq(requests, IsMutating)

\* C23: in deploy-processes, generate-data, create-incidents and
\* reset-environment a POST, PUT or DELETE is issued only in a run whose
\* first request, the GET on /engine, the engine answered; when the engine
\* does not answer it no request follows it, none of the requests issued
\* is a POST, PUT or DELETE, and the run ends with status 1.
C23_ConnectionGating ==
  /\ MutatingRequests # << >> =>
       /\ engine.up
       /\ requests[1] = Request("GET", "engine", "")
  /\ ~ engine.up =>
       /\ MutatingRequests = << >>
       /\ Len(requests) <= 1
       /\ Len(requests) = 1 =>
            /\ requests[1] = Request("GET", "engine", "")
            /\ Exited
       /\ Exited => exitCode = 1

\* A run of reset-environment against an engine that does not answer: it
\* ended with status 1 after the GET on /engine, its only request.
C23_Witness ==
  /\ script = "reset-environment"
  /\ ~ engine.up
  /\ Exited
  /\ exitCode = 1
  /\ requests = << Request("GET", "engine", "") >>
====
